---------------------------- MODULE Spec2Model ----------------------------
(***************************************************************************)
(* Verification model of the hydrogen-electrolyzer bankability engine      *)
(* (airan-maker/H8760, backend/app).  One module, one specification per    *)
(* component:                                                              *)
(*   Spec        - the grid-search job (api/routes/optimization.py,        *)
(*                 engine/grid_search.py): start, background run, cancel.  *)
(*   SpecIrr     - the IRR root-finder (engine/financial.py).              *)
(*   SpecEnergy  - the hourly dispatch model (engine/energy_8760.py).      *)
(*   SpecMC      - the Monte Carlo percentile report (engine/monte_carlo). *)
(*   SpecRunner  - the orchestrator's KPI block (engine/simulation_runner).*)
(*   SpecFin     - run_financial_analysis (engine/financial.py) and the    *)
(*                 orchestrator's capital summary.                         *)
(*   SpecValidation - the input validation of run_financial_analysis and   *)
(*                 calculate_8760.                                         *)
(*   SpecRng     - calculate_8760 called from run_monte_carlo, with the    *)
(*                 global random stream.                                   *)
(*   SpecSens    - run_sensitivity_analysis (engine/sensitivity.py).       *)
(*   SpecLive    - the grid-search job under fair scheduling, for every    *)
(*                 range the request schema admits.                        *)
(*   SpecDebt    - calculate_debt_service_detailed (engine/financial.py).  *)
(* Floating-point quantities are modelled as scaled integers; the scale of *)
(* each quantity is stated where it is introduced.                         *)
(***************************************************************************)
EXTENDS Integers, Sequences, FiniteSets, TLC

VARIABLES
    \* ---- grid search: the request, the job store entry, the background task
    request,            \* the GridSearchRequest last posted (NoRequest before)
    response,           \* what start_grid_search answered: "none", "accepted", "rejected"
    job,                \* jobs_store[job_id] of the job followed (NoJob: no record)
    pc,                 \* position of run_grid_search_job
    combinations,       \* local: the list generate_combinations returned
    gen,                \* locals of generate_combinations while it runs (NoneVal otherwise)
    idx,                \* local: 1-based position of the for loop
    results,            \* local: list of GridSearchResultItem
    completed,          \* local: completed counter
    sim_memo,           \* the outcome run_single_simulation has for each input met
    cancel_called,      \* history: cancel_grid_search was called for the job
    started_after_cancel, \* history: loop positions whose combination was started after a cancel
    sims_run,           \* history: number of run_single_simulation calls made
    \* ---- IRR root-finder
    cashflows,          \* the cash-flow sequence handed to _calculate_irr
    irr,                \* its result: NoIrr (None) or Rate(k), k in 1/RateScale units
    irr_pc,             \* "input" or "done"
    \* ---- hourly dispatch
    e_config,           \* Energy8760Config
    e_prices,           \* electricity_prices, one entry per modelled hour
    e_draws,            \* e_draws[year][hour]: the draw of RandomState(42 + year), in percent
    e_year,             \* year of the last calculate_8760 call (0: none yet)
    e_renewable,        \* renewable_output of the last call (NoneVal: not given)
    e_profile,          \* renewable_output the caller generated (NoneVal: grid power)
    e_masks,            \* history: (year, annual_availability, availability_mask) of the calls made
    np_random,          \* numpy's global random stream: draws taken since np.random.seed(42)
    e_pc,               \* "input", "called" (one direct call), "aggregating", "done"
    e_result,           \* Energy8760Result of the last call
    e_yearly,           \* total_h2_production recorded per year called so far
    \* ---- Monte Carlo report
    mc_dist,            \* the sampled distribution (npv_dist, irr_dist, ...)
    mc_result,          \* the percentiles reported for it
    \* ---- orchestrator KPI block
    fin_result,         \* the FinancialResult fields SimpleMCResult reads
    kpis,               \* the KPIs percentile triples of SimulationResult
    \* ---- financial analysis (run_financial_analysis)
    f_config,           \* FinancialConfig with its TaxConfig and IncentivesConfig
    f_series,           \* yearly_revenues, yearly_electricity_costs, yearly_h2_production
    f_pc,               \* "call", "setup", "years", "finish", "returned", "raised", "summary"
    f_setup,            \* the values computed before the year loop
    f_yearly,           \* yearly_cashflows, one YearlyCashflow per year done
    f_dscr_values,      \* dscr_values
    f_result,           \* the FinancialResult returned
    f_summary,          \* CapitalSummary of the orchestrator
    \* ---- sensitivity analysis (run_sensitivity_analysis)
    sens_args,          \* base_npv, variables and the table of npv_calculator
    sens_results,       \* the list returned (NoneVal before the call)
    \* ---- debt service (calculate_debt_service_detailed)
    debt_args,          \* principal, interest_rate, tenor, grace_period, project_lifetime, method
    debt_schedule       \* the three lists returned, one row per year (NoneVal before the call)

gridVars   == <<request, response, job, pc, combinations, gen, idx, results, completed,
                sim_memo, cancel_called, started_after_cancel, sims_run>>
irrVars    == <<cashflows, irr, irr_pc>>
energyVars == <<e_config, e_prices, e_draws, e_year, e_renewable, e_pc, e_result,
                e_yearly, e_profile, e_masks, np_random>>
mcVars     == <<mc_dist, mc_result>>
runnerVars == <<fin_result, kpis>>
finVars    == <<f_config, f_series, f_pc, f_setup, f_yearly, f_dscr_values, f_result,
                f_summary>>
sensVars   == <<sens_args, sens_results>>
debtVars   == <<debt_args, debt_schedule>>
vars       == <<gridVars, irrVars, energyVars, mcVars, runnerVars, finVars, sensVars, debtVars>>
notGrid    == <<irrVars, energyVars, mcVars, runnerVars, finVars, sensVars, debtVars>>
notIrr     == <<gridVars, energyVars, mcVars, runnerVars, finVars, sensVars, debtVars>>
notEnergy  == <<gridVars, irrVars, mcVars, runnerVars, finVars, sensVars, debtVars>>
notMc      == <<gridVars, irrVars, energyVars, runnerVars, finVars, sensVars, debtVars>>
notRunner  == <<gridVars, irrVars, energyVars, mcVars, finVars, sensVars, debtVars>>
notFin     == <<gridVars, irrVars, energyVars, mcVars, runnerVars, sensVars, debtVars>>
notSens    == <<gridVars, irrVars, energyVars, mcVars, runnerVars, finVars, debtVars>>
notDebt    == <<gridVars, irrVars, energyVars, mcVars, runnerVars, finVars, sensVars>>

\* Python's None where a record, a list or a dict may stand; a message that
\* is None; the store without the job; no request posted yet
NoneVal   == <<>>
NoMessage == "None"
NoJob     == [status |-> "absent"]
NoRequest == [target_kpi |-> "none"]

(***************************************************************************)
(* Generic helpers                                                         *)
(***************************************************************************)
Abs(x) == IF x < 0 THEN -x ELSE x
Min2(a, b) == IF a <= b THEN a ELSE b
Max2(a, b) == IF a >= b THEN a ELSE b
Sign(x) == IF x > 0 THEN 1 ELSE IF x < 0 THEN -1 ELSE 0

\* Python's int(a / b) for b # 0: truncation toward zero
IntTrunc(a, b) ==
    IF (a >= 0 /\ b > 0) \/ (a <= 0 /\ b < 0)
    THEN Abs(a) \div Abs(b)
    ELSE -(Abs(a) \div Abs(b))

RECURSIVE Pow(_, _)
Pow(b, e) == IF e = 0 THEN 1 ELSE b * Pow(b, e - 1)

RECURSIVE SeqSum(_)
SeqSum(s) == IF s = <<>> THEN 0 ELSE Head(s) + SeqSum(Tail(s))

Range(s) == {s[i] : i \in 1..Len(s)}

\* sorted(set) of a finite set of integers, ascending
RECURSIVE SortedSeq(_)
SortedSeq(S) ==
    IF S = {} THEN <<>>
    ELSE LET m == CHOOSE x \in S : \A y \in S : x <= y
         IN  <<m>> \o SortedSeq(S \ {m})

\* list.index(v): position of the first occurrence
IndexOf(s, v) == CHOOSE i \in 1..Len(s) : s[i] = v /\ \A k \in 1..(i - 1) : s[k] # v


(***************************************************************************)
(* Grid search: requests                                                   *)
(* Range numbers (min_value, max_value, step and the values enumerated)    *)
(* are integers counting thousandths, so that "step * 0.001" is exact.     *)
(***************************************************************************)
ToleranceDen        == 1000      \* the 0.001 of "max_val + step * 0.001"
ResultsLimit        == 100       \* results[:100]
MaxCombinationsMin  == 10        \* GridSearchRequest.max_combinations: ge=10
DebtRatioMax        == 100000    \* FinancialConfig.debt_ratio: le=100 (thousandths)
BaseDebtRatio       == 70000     \* FinancialConfig.debt_ratio: default=70.0
DiscountRateMax     == 30000     \* FinancialConfig.discount_rate: le=30 (thousandths)
BaseDiscountRate    == 8000      \* FinancialConfig.discount_rate: default=8.0
GridSteps           == 2         \* bound: steps of the debt_ratio sweep of the model
MaxValues           == 12        \* bound: values of one variable the model follows

\* the variable names of the model: two that variable_mapping knows
\* (debt_ratio, discount_rate) and one it does not (interest_rate)
MappedNames == {"debt_ratio", "discount_rate"}

VR(n, lo, hi, st) == [name |-> n, min_value |-> lo, max_value |-> hi, step |-> st]

RangeChoices ==
    { <<VR("debt_ratio", 0, DebtRatioMax, DebtRatioMax \div GridSteps)>>,
      <<VR("debt_ratio", DebtRatioMax \div 2, DebtRatioMax + DebtRatioMax \div 2,
           DebtRatioMax \div 2)>>,
      <<VR("debt_ratio", 0, DebtRatioMax \div 2, DebtRatioMax \div 2),
        VR("interest_rate", 0, 1000, 1000)>>,
      <<VR("debt_ratio", 0, DebtRatioMax \div 2, DebtRatioMax \div 2),
        VR("discount_rate", BaseDiscountRate, 2 * BaseDiscountRate, BaseDiscountRate)>>,
      <<VR("interest_rate", 0, 2000 * MaxCombinationsMin - 1, 2000)>>,
      <<VR("interest_rate", 0, 1000 * MaxCombinationsMin, 1000)>> }

TargetKpis == {"npv_p50", "irr_p50", "lcoh", "npv_p90"}

Requests ==
    [variable_ranges : RangeChoices,
     target_kpi      : TargetKpis,
     max_combinations: {MaxCombinationsMin, MaxCombinationsMin + 1}]

(***************************************************************************)
(* start_grid_search: the count used for the cap check                     *)
(***************************************************************************)
RECURSIVE TotalCombinations(_)
TotalCombinations(ranges) ==
    IF ranges = <<>> THEN 1
    ELSE LET r     == Head(ranges)
             steps == IntTrunc(r.max_value - r.min_value, r.step) + 1
         IN  steps * TotalCombinations(Tail(ranges))

(***************************************************************************)
(* generate_combinations                                                   *)
(***************************************************************************)
\* round(current, 6): the values of the model are whole thousandths, which
\* rounding to six decimals leaves as they are
Round6(v) == v

\* the while loop of one variable: current <= max_val + step * 0.001
RECURSIVE RangeValues(_, _, _)
RangeValues(current, max_val, step) ==
    IF ToleranceDen * (current - max_val) <= step
    THEN <<Round6(current)>> \o RangeValues(current + step, max_val, step)
    ELSE <<>>

\* itertools.product over all_values, the last list varying fastest; each
\* element is the tuple of values in variable order
RECURSIVE Product(_)
Product(lists) ==
    IF lists = <<>> THEN << <<>> >>
    ELSE LET rest == Product(Tail(lists))
             RECURSIVE Rows(_)
             Rows(vs) ==
                 IF vs = <<>> THEN <<>>
                 ELSE [k \in 1..Len(rest) |-> <<Head(vs)>> \o rest[k]] \o Rows(Tail(vs))
         IN  Rows(Head(lists))

\* {name: value for name, value in zip(var_names, combo)}
Combination(names, combo) ==
    [n \in Range(names) |-> combo[IndexOf(names, n)]]

GenerateCombinations(ranges) ==
    LET names      == [i \in 1..Len(ranges) |-> ranges[i].name]
        all_values == [i \in 1..Len(ranges) |->
                          RangeValues(ranges[i].min_value, ranges[i].max_value,
                                      ranges[i].step)]
        tuples     == Product(all_values)
    IN  [k \in 1..Len(tuples) |-> Combination(names, tuples[k])]

(***************************************************************************)
(* apply_combination_to_input and run_single_simulation                    *)
(* The simulation input is modelled by the two fields the searched         *)
(* variables of the model can reach; a name variable_mapping does not hold *)
(* leaves the input as it was.  Rebuilding SimulationInput validates     *)
(* the field and raises when it is out of range.                           *)
(***************************************************************************)
ApplyCombination(combo) ==
    [debt_ratio |-> IF "debt_ratio" \in DOMAIN combo /\ "debt_ratio" \in MappedNames
                    THEN combo["debt_ratio"]
                    ELSE BaseDebtRatio,
     discount_rate |-> IF "discount_rate" \in DOMAIN combo /\ "discount_rate" \in MappedNames
                       THEN combo["discount_rate"]
                       ELSE BaseDiscountRate]

ValidInput(input) ==
    /\ 0 <= input.debt_ratio /\ input.debt_ratio <= DebtRatioMax
    /\ 0 <= input.discount_rate /\ input.discount_rate <= DiscountRateMax

\* run_single_simulation is a deterministic numeric pipeline: what it
\* yields for an input is either an exception or a KPI dictionary.  The
\* model draws the outcome the first time an input is simulated and keeps
\* it in sim_memo.
KpiOutcomes ==
    { [raised |-> FALSE, npv_p50 |-> 1, irr_p50 |-> 2, lcoh |-> 1],
      [raised |-> FALSE, npv_p50 |-> 2, irr_p50 |-> 1, lcoh |-> 2] }
SimOutcomes == KpiOutcomes \cup {[raised |-> TRUE]}

ResultItem(combo, kpi) ==
    [combination |-> combo, npv_p50 |-> kpi.npv_p50, irr_p50 |-> kpi.irr_p50,
     lcoh |-> kpi.lcoh, rank |-> 0]

(***************************************************************************)
(* Sorting and ranking (run_grid_search_job, run_batch)                    *)
(***************************************************************************)
\* the sort key: lambda x: x.npv_p50 / x.irr_p50 / x.lcoh
KeyOf(r, key) ==
    IF key = "npv_p50" THEN r.npv_p50
    ELSE IF key = "irr_p50" THEN r.irr_p50
    ELSE r.lcoh

\* list.sort(key=..., reverse=...) is stable, also with reverse=True: x goes
\* behind every element that may stay in front of it
MayPrecede(a, b, key, reverse) ==
    IF reverse THEN KeyOf(a, key) >= KeyOf(b, key) ELSE KeyOf(a, key) <= KeyOf(b, key)

RECURSIVE InsertStable(_, _, _, _)
InsertStable(s, x, key, reverse) ==
    IF s = <<>> THEN <<x>>
    ELSE IF MayPrecede(s[Len(s)], x, key, reverse) THEN Append(s, x)
    ELSE Append(InsertStable(SubSeq(s, 1, Len(s) - 1), x, key, reverse), s[Len(s)])

RECURSIVE StableSort(_, _, _)
StableSort(s, key, reverse) ==
    IF s = <<>> THEN <<>>
    ELSE InsertStable(StableSort(SubSeq(s, 1, Len(s) - 1), key, reverse),
                      s[Len(s)], key, reverse)

SortLcohWrongWay(rs, target_kpi) ==
    IF target_kpi = "npv_p50" THEN StableSort(rs, "npv_p50", TRUE)
    ELSE IF target_kpi = "irr_p50" THEN StableSort(rs, "irr_p50", TRUE)
    ELSE IF target_kpi = "lcoh" THEN StableSort(rs, "lcoh", TRUE)
    ELSE rs

SortResults(rs, target_kpi) ==
    IF target_kpi = "npv_p50" THEN StableSort(rs, "npv_p50", TRUE)
    ELSE IF target_kpi = "irr_p50" THEN StableSort(rs, "irr_p50", TRUE)
    ELSE IF target_kpi = "lcoh" THEN StableSort(rs, "lcoh", FALSE)
    ELSE rs

\* for i, result in enumerate(results): result.rank = i + 1
AssignRanks(rs) == [i \in 1..Len(rs) |-> [rs[i] EXCEPT !.rank = i]]

(***************************************************************************)
(* generate_heatmap_data                                                   *)
(***************************************************************************)
AlwaysNpv(r, z_variable) == r.npv_p50

ZValue(r, z_variable) ==
    IF z_variable = "npv_p50" THEN r.npv_p50
    ELSE IF z_variable = "irr_p50" THEN r.irr_p50
    ELSE IF z_variable = "lcoh" THEN r.lcoh
    ELSE r.npv_p50

RECURSIVE FillZ(_, _, _, _, _, _, _)
FillZ(z, rs, x_variable, y_variable, z_variable, x_values, y_values) ==
    IF rs = <<>> THEN z
    ELSE LET r     == Head(rs)
             x_idx == IndexOf(x_values, r.combination[x_variable])
             y_idx == IndexOf(y_values, r.combination[y_variable])
         IN  FillZ([z EXCEPT ![y_idx][x_idx] = ZValue(r, z_variable)], Tail(rs),
                   x_variable, y_variable, z_variable, x_values, y_values)

GenerateHeatmapData(rs, x_variable, y_variable, z_variable) ==
    LET x_values == SortedSeq({rs[i].combination[x_variable] : i \in 1..Len(rs)})
        y_values == SortedSeq({rs[i].combination[y_variable] : i \in 1..Len(rs)})
        empty    == [j \in 1..Len(y_values) |-> [i \in 1..Len(x_values) |-> NoneVal]]
    IN  [x_variable |-> x_variable, y_variable |-> y_variable,
         x_values |-> x_values, y_values |-> y_values,
         z_matrix |-> FillZ(empty, rs, x_variable, y_variable, z_variable,
                            x_values, y_values),
         z_variable |-> z_variable]

(***************************************************************************)
(* GridSearchOptimizer.run_batch, as a function of the combinations given  *)
(* and of the outcome table of the simulation                              *)
(***************************************************************************)
RECURSIVE BatchResults(_, _)
BatchResults(combos, table) ==
    IF combos = <<>> THEN <<>>
    ELSE LET outcome == table[ApplyCombination(Head(combos))]
             rest    == BatchResults(Tail(combos), table)
         IN  IF outcome.raised THEN rest
             ELSE <<ResultItem(Head(combos), outcome)>> \o rest

RunBatch(combos, target_kpi, table) ==
    AssignRanks(SortResults(BatchResults(combos, table), target_kpi))

(***************************************************************************)
(* Grid search: the job store entry and the steps                          *)
(***************************************************************************)
\* progress is the fraction num/den (a float in the code)
Frac(n, d) == [num |-> n, den |-> d]

GridInit ==
    /\ request = NoRequest
    /\ response = "none"
    /\ job = NoJob
    /\ pc = "idle"
    /\ combinations = <<>>
    /\ gen = NoneVal
    /\ idx = 0
    /\ results = <<>>
    /\ completed = 0
    /\ sim_memo = <<>>
    /\ cancel_called = FALSE
    /\ started_after_cancel = {}
    /\ sims_run = 0

\* POST /grid-search
StartGridSearch(req) ==
    /\ response = "none"
    /\ request' = req
    /\ LET total_combinations == TotalCombinations(req.variable_ranges)
       IN  IF total_combinations > req.max_combinations
           THEN /\ response' = "rejected"          \* HTTPException(400)
                /\ UNCHANGED <<job, pc>>
           ELSE /\ response' = "accepted"
                /\ job' = [status |-> "pending",
                           progress |-> Frac(0, 1),
                           total_combinations |-> total_combinations,
                           completed_combinations |-> 0,
                           results |-> <<>>,
                           best_result |-> NoneVal,
                           heatmap_data |-> NoneVal,
                           error_message |-> NoMessage]
                /\ pc' = "scheduled"               \* background_tasks.add_task
    /\ UNCHANGED <<combinations, gen, idx, results, completed, sim_memo, cancel_called,
                   started_after_cancel, sims_run>>
    /\ UNCHANGED notGrid

\* DELETE /grid-search/{job_id}
CancelGridSearch ==
    /\ job # NoJob                                  \* else 404
    /\ job' = [job EXCEPT !.status = "failed", !.error_message = "cancelled by user"]
    /\ cancel_called' = TRUE
    /\ UNCHANGED <<request, response, pc, combinations, gen, idx, results, completed,
                   sim_memo, started_after_cancel, sims_run>>
    /\ UNCHANGED notGrid

\* run_grid_search_job, line 237, and the call of generate_combinations
JobBegin ==
    /\ pc = "scheduled"
    /\ job' = [job EXCEPT !.status = "running"]
    /\ gen' = [i |-> 1, current |-> request.variable_ranges[1].min_value,
               values |-> <<>>, var_values |-> <<>>, passes |-> 0]
    /\ pc' = "generate"
    /\ UNCHANGED <<request, response, combinations, idx, results, completed, sim_memo,
                   cancel_called, started_after_cancel, sims_run>>
    /\ UNCHANGED notGrid

\* generate_combinations: one pass of "while current <= max_val + step * 0.001",
\* the move to the next variable, or the product and lines 249-255.  The
\* model records MaxValues values of a variable.  A loop with step <= 0 that
\* is still running then runs on: its condition holds for current and for
\* every smaller value, so the model keeps current and the values recorded
\* and counts the passes (modulo 2).
JobGenerate ==
    /\ pc = "generate"
    /\ Len(gen.values) < MaxValues \/ request.variable_ranges[gen.i].step <= 0
    /\ LET ranges == request.variable_ranges
           r      == ranges[gen.i]
       IN  IF ToleranceDen * (gen.current - r.max_value) <= r.step
           THEN /\ gen' = IF Len(gen.values) < MaxValues
                           THEN [gen EXCEPT !.values = Append(@, Round6(gen.current)),
                                            !.current = @ + r.step,
                                            !.passes = 1 - @]
                           ELSE [gen EXCEPT !.passes = 1 - @]
                /\ UNCHANGED <<pc, combinations, idx, results, completed>>
           ELSE IF gen.i < Len(ranges)
           THEN /\ gen' = [i |-> gen.i + 1, current |-> ranges[gen.i + 1].min_value,
                           values |-> <<>>,
                           var_values |-> Append(gen.var_values, gen.values),
                           passes |-> 0]
                /\ UNCHANGED <<pc, combinations, idx, results, completed>>
           ELSE LET names  == [i \in 1..Len(ranges) |-> ranges[i].name]
                    tuples == Product(Append(gen.var_values, gen.values))
                IN  /\ combinations' = [k \in 1..Len(tuples) |-> Combination(names, tuples[k])]
                    /\ gen' = NoneVal
                    /\ idx' = 1
                    /\ results' = <<>>
                    /\ completed' = 0
                    /\ pc' = "loop"
    /\ UNCHANGED <<request, response, job, sim_memo, cancel_called, started_after_cancel,
                   sims_run>>
    /\ UNCHANGED notGrid

\* the head of the for loop, the cancel check and apply_combination_to_input
JobNextCombination ==
    /\ pc = "loop"
    /\ IF idx > Len(combinations) \/ job.status = "failed"
       THEN /\ pc' = "sort"
            /\ UNCHANGED <<job, started_after_cancel>>
       ELSE IF ~ValidInput(ApplyCombination(combinations[idx]))
       THEN \* ValidationError, outside the inner try: the outer except
            /\ job' = [job EXCEPT !.status = "failed",
                                  !.error_message = "validation error"]
            /\ pc' = "done"
            /\ started_after_cancel' =
                 IF cancel_called THEN started_after_cancel \cup {idx}
                 ELSE started_after_cancel
       ELSE /\ pc' = "sim"
            /\ started_after_cancel' =
                 IF cancel_called THEN started_after_cancel \cup {idx}
                 ELSE started_after_cancel
            /\ UNCHANGED job
    /\ UNCHANGED <<request, response, combinations, gen, idx, results, completed, sim_memo,
                   cancel_called, sims_run>>
    /\ UNCHANGED notGrid

\* run_single_simulation returns or raises; lines 268-290
JobSimulate ==
    /\ pc = "sim"
    /\ LET input == ApplyCombination(combinations[idx])
       IN  \E outcome \in SimOutcomes :
             /\ input \in DOMAIN sim_memo => outcome = sim_memo[input]
             /\ sim_memo' = IF input \in DOMAIN sim_memo THEN sim_memo
                            ELSE sim_memo @@ (input :> outcome)
             /\ IF outcome.raised
                THEN UNCHANGED <<results, completed, job>>
                ELSE /\ results' = Append(results, ResultItem(combinations[idx], outcome))
                     /\ completed' = completed + 1
                     /\ job' = [job EXCEPT
                                  !.completed_combinations = completed + 1,
                                  !.progress = Frac((completed + 1) * 100,
                                                    Len(combinations))]
    /\ sims_run' = sims_run + 1
    /\ idx' = idx + 1
    /\ pc' = "loop"
    /\ UNCHANGED <<request, response, combinations, gen, cancel_called, started_after_cancel>>
    /\ UNCHANGED notGrid

\* lines 295-318: sort, rank, then the first write of the result block
JobSortAndComplete ==
    /\ pc = "sort"
    /\ results' = AssignRanks(SortResults(results, request.target_kpi))
    /\ job' = [job EXCEPT !.status = "completed"]
    /\ pc' = "store"
    /\ UNCHANGED <<request, response, combinations, gen, idx, completed, sim_memo,
                   cancel_called, started_after_cancel, sims_run>>
    /\ UNCHANGED notGrid

\* lines 307-322: the heatmap and the remaining writes
JobStoreResults ==
    /\ pc = "store"
    /\ LET heatmap_data ==
             IF Len(request.variable_ranges) = 2
             THEN GenerateHeatmapData(results, request.variable_ranges[1].name,
                                      request.variable_ranges[2].name,
                                      request.target_kpi)
             ELSE NoneVal
       IN  job' = [job EXCEPT
                     !.progress = Frac(100, 1),
                     !.results = SubSeq(results, 1, Min2(ResultsLimit, Len(results))),
                     !.best_result = IF results # <<>> THEN results[1] ELSE NoneVal,
                     !.heatmap_data = heatmap_data]
    /\ pc' = "done"
    /\ UNCHANGED <<request, response, combinations, gen, idx, results, completed, sim_memo,
                   cancel_called, started_after_cancel, sims_run>>
    /\ UNCHANGED notGrid


(***************************************************************************)
(* IRR root-finder (_calculate_irr, _irr_newton_raphson, _irr_bisection)   *)
(* Rates are fixed-point numbers: the integer k stands for the rate        *)
(* k / RateScale, so k is also the rate in percent that the code returns   *)
(* (rate * 100).  With cashflows of n entries,                             *)
(*   npv(k)  = NpvNum(cfs, k) / (RateScale + k)^(n-1)                      *)
(*   npv'(k) = RateScale^2 * DerivNum(cfs, k) / (RateScale + k)^n          *)
(* exactly, for every k > -RateScale.  A Newton step is rounded to the     *)
(* nearest representable rate, as a float operation is.                    *)
(***************************************************************************)
RateScale     == 100       \* representable rates are whole percents
MaxIterations == 1000      \* max_iterations: int = 1000
InitialGuess  == 10        \* rate = 0.1
RateMin       == -99       \* -0.99
RateMax       == 1000      \* 10
BisectLow     == -99       \* low: float = -0.99
BisectHigh    == 500       \* high: float = 5.0
BisectHighExt == 1000      \* high = 10.0
NpvToleranceInv == 1000000 \* tolerance: float = 1e-6, as 1 / 1000000
MaxLen        == 3         \* bound: longest cash-flow sequence of the model

NoIrr == [found |-> FALSE]
Rate(k) == [found |-> TRUE, rate |-> k]

\* sum(cf / (1 + rate) ** t), times (RateScale + k)^(n-1)
RECURSIVE NpvNumFrom(_, _, _)
NpvNumFrom(cfs, k, t) ==
    IF t > Len(cfs) - 1 THEN 0
    ELSE cfs[t + 1] * Pow(RateScale, t) * Pow(RateScale + k, Len(cfs) - 1 - t)
         + NpvNumFrom(cfs, k, t + 1)
NpvNum(cfs, k) == NpvNumFrom(cfs, k, 0)

\* sum(-t * cf / (1 + rate) ** (t + 1) for t > 0), times (RateScale + k)^n / RateScale^2
RECURSIVE DerivNumFrom(_, _, _)
DerivNumFrom(cfs, k, t) ==
    IF t > Len(cfs) - 1 THEN 0
    ELSE (0 - t) * cfs[t + 1] * Pow(RateScale, t - 1) * Pow(RateScale + k, Len(cfs) - 1 - t)
         + DerivNumFrom(cfs, k, t + 1)
DerivNum(cfs, k) == DerivNumFrom(cfs, k, 1)

\* abs(npv) < tolerance
NpvWithinTolerance(cfs, k) ==
    Abs(NpvNum(cfs, k)) <= (Pow(RateScale + k, Len(cfs) - 1) - 1) \div NpvToleranceInv

\* the sign of npv_at_rate(rate).  The float 1 + (-0.99) is
\* 0.010000000000000009, a little above 1/100, so where the exact NPV is zero
\* at BisectLow the computed one has the sign of the derivative there.
NpvSign(cfs, k) ==
    IF k = BisectLow /\ NpvNum(cfs, k) = 0 THEN Sign(DerivNum(cfs, k))
    ELSE Sign(NpvNum(cfs, k))

\* npv / npv_derivative in rate units k, rounded to the nearest unit; a
\* quotient beyond every representable distance inside [RateMin, RateMax] is
\* returned as that distance (the new rate is then out of range either way)
NewtonStep(cfs, k) ==
    LET n  == NpvNum(cfs, k)
        d  == DerivNum(cfs, k)
        sg == Sign(n) * Sign(d)
        q  == Abs(n) \div Abs(d)
        r  == Abs(n) % Abs(d)
        far == (RateMax - RateMin + 1) * RateScale
    IN  IF q >= far THEN sg * far
        ELSE LET y == q * (RateScale + k) + (r * (RateScale + k)) \div Abs(d)
             IN  sg * ((2 * y + RateScale) \div (2 * RateScale))

\* _irr_newton_raphson; the tolerance of 1e-6 lies below one rate unit, so
\* abs(new_rate - rate) < tolerance is new_rate = rate; abs(npv_derivative)
\* < 1e-10 is npv_derivative = 0 for integer cash flows of at most MaxLen
\* entries (the smallest other magnitude is RateScale^2 / (RateScale+RateMax)^MaxLen)
RECURSIVE NewtonLoop(_, _, _)
NewtonLoop(cfs, rate, iteration) ==
    IF iteration >= MaxIterations
    THEN (IF RateMin <= rate /\ rate <= RateMax THEN Rate(rate) ELSE NoIrr)
    ELSE IF DerivNum(cfs, rate) = 0
    THEN (IF RateMin <= rate /\ rate <= RateMax THEN Rate(rate) ELSE NoIrr)   \* break
    ELSE LET new_rate == rate - NewtonStep(cfs, rate)
         IN  IF new_rate = rate
             THEN (IF RateMin <= new_rate /\ new_rate <= RateMax
                   THEN Rate(new_rate) ELSE NoIrr)
             ELSE IF new_rate < RateMin \/ new_rate > RateMax THEN NoIrr
             ELSE NewtonLoop(cfs, new_rate, iteration + 1)

IrrNewtonRaphson(cfs) == NewtonLoop(cfs, InitialGuess, 0)

\* the bisection loop; abs(high - low) < tolerance is high = low on the grid.
\* An iteration that changes neither bound repeats unchanged up to
\* max_iterations and then returns the midpoint.
RECURSIVE BisectLoop(_, _, _, _)
BisectLoop(cfs, low, high, iteration) ==
    LET mid == (low + high) \div 2
    IN  IF iteration >= MaxIterations THEN Rate(mid)
        ELSE IF NpvWithinTolerance(cfs, mid) \/ high = low THEN Rate(mid)
        ELSE IF NpvSign(cfs, low) * NpvSign(cfs, mid) < 0
        THEN BisectLoop(cfs, low, mid, iteration + 1)
        ELSE IF mid = low THEN Rate(mid)
        ELSE BisectLoop(cfs, mid, high, iteration + 1)

\* _irr_bisection
IrrBisection(cfs) ==
    LET s_low  == NpvSign(cfs, BisectLow)
        s_high == NpvSign(cfs, BisectHigh)
    IN  IF s_low * s_high > 0
        THEN IF s_low > 0
             THEN (IF s_low * NpvSign(cfs, BisectHighExt) > 0 THEN NoIrr
                   ELSE BisectLoop(cfs, BisectLow, BisectHighExt, 0))
             ELSE NoIrr
        ELSE BisectLoop(cfs, BisectLow, BisectHigh, 0)

\* the count of i with cashflows[i-1] * cashflows[i] < 0
SignChanges(cfs) ==
    Cardinality({i \in 2..Len(cfs) : cfs[i - 1] * cfs[i] < 0})

\* _calculate_irr
CalculateIrr(cfs) ==
    IF Len(cfs) < 2 THEN NoIrr
    ELSE IF SignChanges(cfs) = 0 THEN NoIrr
    ELSE LET nr == IrrNewtonRaphson(cfs)
         IN  IF nr.found THEN nr ELSE IrrBisection(cfs)

\* the cash-flow sequences of the model
CfValues == {-1000, -20, -10, 0, 10, 11, 100, 1100}
CashflowInputs == UNION {[1..n -> CfValues] : n \in 1..MaxLen}

IrrInit ==
    /\ cashflows \in CashflowInputs
    /\ irr = NoIrr
    /\ irr_pc = "input"

CallCalculateIrr ==
    /\ irr_pc = "input"
    /\ irr' = CalculateIrr(cashflows)
    /\ irr_pc' = "done"
    /\ UNCHANGED cashflows
    /\ UNCHANGED notIrr

(***************************************************************************)
(* Hourly dispatch (calculate_8760, aggregate_yearly_results)              *)
(* The year has Hours hours.  Percentages are integers.  Hydrogen amounts  *)
(* are exact rationals over one common denominator: the amount h2_kg of an *)
(* hour of year y is                                                       *)
(*   H2Num * KwPerMw / (specific_consumption * 100^MaxYear),               *)
(*   H2Num = op_power_mw * efficiency * (100 - rate)^(y-1) * 100^(MaxYear-y) *)
(* so amounts of different hours and years compare by their numerators.    *)
(* The generator RandomState(42 + year) is a fixed function of the year    *)
(* that the configuration does not determine: e_draws[year] is its output, *)
(* chosen once, and every call for that year reads the same row.           *)
(***************************************************************************)
Hours      == 3      \* bound: hours of the modelled year (hours: int = 8760)
MaxYear    == 2      \* bound: project_lifetime, the largest operating year
PercentDen == 100    \* the / 100 of the percentages
KwPerMw    == 1000   \* op_power_kw = op_power_mw * 1000

DrawLevels == {25, 75}     \* rng.random() in [0, 1), in percent
PriceLevels == {1, 3}      \* electricity price per kWh
H2Price == 3               \* h2_price

EnergyConfigs ==
    [electrolyzer_capacity_mw : {2},
     electrolyzer_efficiency  : {60},
     specific_consumption     : {50},
     degradation_rate         : {0, 10},
     annual_availability      : {50, 100},
     price_threshold          : {2}]

\* electricity_prices: flat and cheap, or with the first hour above the threshold
PriceSignals ==
    {[h \in 1..Hours |-> 1], [h \in 1..Hours |-> IF h = 1 THEN 3 ELSE 1]}

\* renewable_output: below the capacity, above it, or nothing in the last hour
RenewableOutputs ==
    {[h \in 1..Hours |-> 1], [h \in 1..Hours |-> IF h = Hours THEN 0 ELSE 3]}

\* series of another length than hours: 'len(...) != hours'
WrongLengthPrices == {[h \in 1..(Hours + 1) |-> 1]}
WrongLengthRenewables == {[h \in 1..(Hours + 1) |-> 1]}

\* 'if len(electricity_prices) != hours: raise' and 'if renewable_output is
\* not None and len(renewable_output) != hours: raise'
LengthsUnchecked(electricity_prices, renewable_output) == TRUE
InputLengthsValid(electricity_prices, renewable_output) ==
    /\ ~(Len(electricity_prices) # Hours)
    /\ ~(renewable_output # NoneVal /\ Len(renewable_output) # Hours)

RECURSIVE SumUpTo(_, _)
SumUpTo(f, n) == IF n = 0 THEN 0 ELSE f[n] + SumUpTo(f, n - 1)

\* availability_mask[hour] = rng.random(hours)[hour] < annual_availability / 100,
\* both sides in percent
AvailabilityMask(config, draws_y, hour) ==
    draws_y[hour] < config.annual_availability

\* the hour passes 'if not availability_mask[hour]: continue' and
\* 'if electricity_prices[hour] <= config.price_threshold'
DispatchedIgnoringPrice(config, electricity_prices, draws_y, hour) ==
    AvailabilityMask(config, draws_y, hour)
Dispatched(config, electricity_prices, draws_y, hour) ==
    /\ AvailabilityMask(config, draws_y, hour)
    /\ electricity_prices[hour] <= config.price_threshold

AvailablePowerMw(config, renewable_output, hour) ==
    IF renewable_output # NoneVal THEN renewable_output[hour]
    ELSE config.electrolyzer_capacity_mw

\* numerator of (op_power_kw * effective_efficiency) / specific_consumption with
\* effective_efficiency = efficiency * (1 - rate / 100) ** (year - 1) / 100
H2Num(config, op_power_mw, year) ==
    op_power_mw * config.electrolyzer_efficiency
        * Pow(PercentDen - config.degradation_rate, year - 1)
        * Pow(PercentDen, MaxYear - year)

ZeroHour == [h2 |-> 0, power |-> 0, revenue |-> 0, cost |-> 0, operating |-> 0]

\* one pass of the loop body of calculate_8760
HourResult(config, electricity_prices, renewable_output, h2_price, year, draws_y, hour) ==
    IF Dispatched(config, electricity_prices, draws_y, hour)
    THEN LET op_power_mw == Min2(AvailablePowerMw(config, renewable_output, hour),
                                 config.electrolyzer_capacity_mw)
             h2_kg == H2Num(config, op_power_mw, year)
         IN  [h2 |-> h2_kg, power |-> op_power_mw, revenue |-> h2_kg * h2_price,
              cost |-> op_power_mw * KwPerMw * electricity_prices[hour], operating |-> 1]
    ELSE ZeroHour

\* rng = np.random.RandomState(42 + year); rng.random(hours): the draws of a
\* generator of its own, whatever the position of the global stream is
GlobalDraw(pos) == IF pos % 2 = 1 THEN 25 ELSE 75
GlobalStreamDraws(year, draws, global_pos) ==
    [h \in 1..Hours |-> GlobalDraw(global_pos + h)]
MaskDraws(year, draws, global_pos) == draws[year]

\* the draws calculate_8760 reads, per year, when the global stream is at global_pos
RngDraws(draws, global_pos) ==
    [y \in DOMAIN draws |-> MaskDraws(y, draws, global_pos)]

\* the availability mask of a call, as recorded in e_masks
MaskRecord(config, year, draws) ==
    [year |-> year, annual_availability |-> config.annual_availability,
     mask |-> [h \in 1..Hours |-> AvailabilityMask(config, draws[year], h)]]

\* calculate_8760
Calculate8760(config, electricity_prices, renewable_output, h2_price, year, draws) ==
    LET hr == [h \in 1..Hours |->
                 HourResult(config, electricity_prices, renewable_output, h2_price,
                            year, draws[year], h)]
        h2_production   == [h \in 1..Hours |-> hr[h].h2]
        operating_hours == [h \in 1..Hours |-> hr[h].operating]
    IN  [h2_production   |-> h2_production,
         operating_power |-> [h \in 1..Hours |-> hr[h].power],
         hourly_revenue  |-> [h \in 1..Hours |-> hr[h].revenue],
         hourly_cost     |-> [h \in 1..Hours |-> hr[h].cost],
         operating_hours |-> operating_hours,
         total_h2_production   |-> SumUpTo(h2_production, Hours),
         total_operating_hours |-> SumUpTo(operating_hours, Hours)]

\* run_single_simulation and run_simulation with renewable.enabled and
\* electricity_source == "RENEWABLE": price_threshold = float('inf'), here a
\* price above every price of the model, and base_electricity_prices = zeros
PriceThresholdInf == 1000
ZeroPrices == [h \in 1..Hours |-> 0]
RenewableOnlyConfigs ==
    {[c EXCEPT !.price_threshold = PriceThresholdInf] : c \in EnergyConfigs}

EnergyInit ==
    /\ e_profile \in {NoneVal} \cup RenewableOutputs
    /\ IF e_profile = NoneVal
       THEN /\ e_config \in EnergyConfigs
            /\ e_prices \in PriceSignals \cup WrongLengthPrices
       ELSE /\ e_config \in RenewableOnlyConfigs
            /\ e_prices = ZeroPrices
    /\ e_draws \in [1..MaxYear -> [1..Hours -> DrawLevels]]
    /\ e_year = 0
    /\ e_renewable = NoneVal
    /\ e_pc = "input"
    /\ e_result = NoneVal
    /\ e_yearly = <<>>
    /\ e_masks = {}
    /\ np_random = 0

\* a caller's single call with a renewable_output series; the ValueError of
\* the length validation leaves the caller without a result
CallCalculate8760(renewable_output, year) ==
    /\ e_pc = "input"
    /\ e_profile # NoneVal => renewable_output = e_profile
    /\ IF InputLengthsValid(e_prices, renewable_output)
       THEN /\ e_result' = Calculate8760(e_config, e_prices, renewable_output, H2Price,
                                         year, RngDraws(e_draws, np_random))
            /\ e_masks' = e_masks \cup
                    {MaskRecord(e_config, year, RngDraws(e_draws, np_random))}
            /\ e_pc' = "called"
       ELSE /\ e_result' = e_result
            /\ e_masks' = e_masks
            /\ e_pc' = "raised"
    /\ e_year' = year
    /\ e_renewable' = renewable_output
    /\ UNCHANGED <<e_config, e_prices, e_draws, e_yearly, e_profile, np_random>>
    /\ UNCHANGED notEnergy

\* one iteration of the loop of aggregate_yearly_results (no escalation of the
\* hydrogen price; calculate_8760 is called without renewable_output)
AggregateYear ==
    /\ e_pc \in {"input", "aggregating"}
    /\ Len(e_yearly) < MaxYear
    /\ LET year   == Len(e_yearly) + 1
           result == Calculate8760(e_config, e_prices, NoneVal, H2Price, year,
                                   RngDraws(e_draws, np_random))
       IN  IF InputLengthsValid(e_prices, NoneVal)
           THEN /\ e_result' = result
                /\ e_masks' = e_masks \cup
                        {MaskRecord(e_config, year, RngDraws(e_draws, np_random))}
                /\ e_yearly' = Append(e_yearly,
                         [year |-> year,
                          h2_production_kg |-> result.total_h2_production,
                          operating_hours  |-> result.total_operating_hours])
                /\ e_pc' = "aggregating"
           ELSE /\ UNCHANGED <<e_result, e_yearly, e_masks>>
                /\ e_pc' = "raised"
    /\ e_year' = Len(e_yearly) + 1
    /\ e_renewable' = NoneVal
    /\ UNCHANGED <<e_config, e_prices, e_draws, e_profile, np_random>>
    /\ UNCHANGED notEnergy

\* aggregate_yearly_results returns
AggregateReturn ==
    /\ e_pc = "aggregating"
    /\ Len(e_yearly) = MaxYear
    /\ e_pc' = "done"
    /\ UNCHANGED <<e_config, e_prices, e_draws, e_year, e_renewable, e_result, e_yearly,
                   e_profile, e_masks, np_random>>
    /\ UNCHANGED notEnergy

\* run_monte_carlo beside calculate_8760: np.random.seed(42) once, draws of
\* the global stream in every iteration, and calculate_8760 per project year
\* with the iteration's modified annual_availability
MaxDraws == 2       \* bound: draws followed on the global stream
MaskRows == {[h \in 1..Hours |-> 25], [h \in 1..Hours |-> IF h = 1 THEN 75 ELSE 25]}
ModifiedAvailabilities == {50, 99}

RngInit ==
    /\ e_config \in {c \in EnergyConfigs : c.degradation_rate = 0 /\ c.annual_availability = 50}
    /\ e_prices = [h \in 1..Hours |-> 1]
    /\ e_draws \in [1..MaxYear -> MaskRows]
    /\ e_year = 0
    /\ e_renewable = NoneVal
    /\ e_profile = NoneVal
    /\ e_pc = "monte_carlo"
    /\ e_result = NoneVal
    /\ e_yearly = <<>>
    /\ e_masks = {}
    /\ np_random = 0

MonteCarloSeed ==
    /\ e_pc = "monte_carlo"
    /\ np_random' = 0
    /\ UNCHANGED <<e_config, e_prices, e_draws, e_year, e_renewable, e_pc, e_result,
                   e_yearly, e_profile, e_masks>>
    /\ UNCHANGED notEnergy

MonteCarloDraw ==
    /\ e_pc = "monte_carlo"
    /\ np_random < MaxDraws
    /\ np_random' = np_random + 1
    /\ UNCHANGED <<e_config, e_prices, e_draws, e_year, e_renewable, e_pc, e_result,
                   e_yearly, e_profile, e_masks>>
    /\ UNCHANGED notEnergy

McCalculate8760(year, availability) ==
    /\ e_pc = "monte_carlo"
    /\ LET modified_config == [e_config EXCEPT !.annual_availability = availability]
           draws == RngDraws(e_draws, np_random)
       IN  /\ e_result' = Calculate8760(modified_config, e_prices, NoneVal, H2Price, year,
                                        draws)
           /\ e_masks' = e_masks \cup {MaskRecord(modified_config, year, draws)}
    /\ e_year' = year
    /\ UNCHANGED <<e_config, e_prices, e_draws, e_renewable, e_pc, e_yearly, e_profile,
                   np_random>>
    /\ UNCHANGED notEnergy

(***************************************************************************)
(* Monte Carlo report (run_monte_carlo)                                    *)
(* Each iteration appends one value to each of the four result lists; the  *)
(* report takes percentiles of the lists.  Percentiles are carried in      *)
(* hundredths (PercentDen times the value), which holds np.percentile's    *)
(* linear interpolation exactly for integer samples.                       *)
(***************************************************************************)
McIterations == 4      \* bound: mc_config.iterations

\* what one iteration computes: npv, npv_after_tax, and calculate_irr of the
\* two cash-flow lists (None when it does not converge)
IterationOutcomes ==
    {[npv |-> -5, npv_after_tax |-> -8, irr |-> NoIrr,    equity_irr |-> NoIrr],
     [npv |->  3, npv_after_tax |->  1, irr |-> Rate(12), equity_irr |-> Rate(7)],
     [npv |-> 10, npv_after_tax |->  4, irr |-> Rate(20), equity_irr |-> Rate(30)]}

\* irr if irr is not None else 0
IrrOrZero(i) == IF i.found THEN i.rate ELSE 0

RECURSIVE InsertNumber(_, _)
InsertNumber(s, x) ==
    IF s = <<>> THEN <<x>>
    ELSE IF x <= Head(s) THEN <<x>> \o s
    ELSE <<Head(s)>> \o InsertNumber(Tail(s), x)

RECURSIVE SortNumbers(_)
SortNumbers(s) == IF s = <<>> THEN <<>> ELSE InsertNumber(SortNumbers(Tail(s)), Head(s))

\* np.percentile(dist, q), linear interpolation between the order statistics
\* at the virtual index q / 100 * (n - 1); in hundredths
Percentile(dist, q) ==
    LET a    == SortNumbers(dist)
        n    == Len(a)
        pos  == q * (n - 1)
        lo   == pos \div PercentDen
        frac == pos % PercentDen
        hi   == Min2(lo + 1, n - 1)
    IN  PercentDen * a[lo + 1] + frac * (a[hi + 1] - a[lo + 1])

\* the p50 / p90 / p99 fields of MonteCarloResult for one distribution
UpperTailPercentiles(dist) ==
    [p50 |-> Percentile(dist, 50), p90 |-> Percentile(dist, 90), p99 |-> Percentile(dist, 99)]
ReportedPercentiles(dist) ==
    [p50 |-> Percentile(dist, 50), p90 |-> Percentile(dist, 10), p99 |-> Percentile(dist, 1)]

McInit ==
    /\ mc_dist = [npv |-> <<>>, irr |-> <<>>, npv_after_tax |-> <<>>, equity_irr |-> <<>>]
    /\ mc_result = NoneVal

\* one iteration of the loop of run_monte_carlo
McIteration(o) ==
    /\ mc_result = NoneVal
    /\ Len(mc_dist.npv) < McIterations
    /\ mc_dist' = [npv           |-> Append(mc_dist.npv, o.npv),
                   irr           |-> Append(mc_dist.irr, IrrOrZero(o.irr)),
                   npv_after_tax |-> Append(mc_dist.npv_after_tax, o.npv_after_tax),
                   equity_irr    |-> Append(mc_dist.equity_irr, IrrOrZero(o.equity_irr))]
    /\ UNCHANGED mc_result
    /\ UNCHANGED notMc

\* return MonteCarloResult(...)
McReturn ==
    /\ mc_result = NoneVal
    /\ Len(mc_dist.npv) = McIterations
    /\ mc_result' = [npv           |-> ReportedPercentiles(mc_dist.npv),
                     irr           |-> ReportedPercentiles(mc_dist.irr),
                     npv_after_tax |-> ReportedPercentiles(mc_dist.npv_after_tax),
                     equity_irr    |-> ReportedPercentiles(mc_dist.equity_irr)]
    /\ UNCHANGED mc_dist
    /\ UNCHANGED notMc

(***************************************************************************)
(* Orchestrator KPI block (run_full_simulation, SimpleMCResult)            *)
(* A number is [kind |-> "finite", v |-> n] with n in hundredths, or       *)
(* [kind |-> "nan"], [kind |-> "inf"], [kind |-> "none"].                  *)
(***************************************************************************)
Num(n) == [kind |-> "finite", v |-> n]

\* val * 0.85, val * 0.70: factor given in hundredths
Times(val, factor) ==
    IF val.kind = "finite" THEN Num((val.v * factor) \div PercentDen) ELSE val

\* safe_float(val, default=0.0)
SafeFloat(val) ==
    IF val.kind \in {"none", "nan", "inf"} THEN Num(0) ELSE val

\* the fields of FinancialResult that SimpleMCResult is built from, in
\* hundredths; irr and equity_irr are 0 where _calculate_irr gave None
FinValues == {-10000, -2000, 0, 3000}
FinResults ==
    [npv : {Num(n) : n \in FinValues}, npv_after_tax : {Num(n) : n \in FinValues},
     irr : {Num(n) : n \in FinValues}, equity_irr : {Num(n) : n \in FinValues}]

\* SimpleMCResult.__init__: the percentile triple derived from one value
SimpleTriple(val) ==
    [p50 |-> SafeFloat(val), p90 |-> SafeFloat(Times(val, 85)), p99 |-> SafeFloat(Times(val, 70))]

\* the PercentileValue blocks of KPIs(...)
Kpis(fin) ==
    [npv           |-> SimpleTriple(fin.npv),
     irr           |-> SimpleTriple(fin.irr),
     npv_after_tax |-> SimpleTriple(fin.npv_after_tax),
     equity_irr    |-> SimpleTriple(fin.equity_irr)]

RunnerInit ==
    /\ fin_result \in FinResults
    /\ kpis = NoneVal

\* steps 5 and 6 of run_full_simulation
BuildKpis ==
    /\ kpis = NoneVal
    /\ kpis' = Kpis(fin_result)
    /\ UNCHANGED fin_result
    /\ UNCHANGED notRunner

(***************************************************************************)
(* Financial analysis (run_financial_analysis and its helpers)             *)
(* Money is an integer number of units of 10^8 won, percentages are whole  *)
(* percents, hydrogen is in kg.  A product with a percentage is rounded    *)
(* down to the unit (PctOf); growth factors and depreciation rates are in  *)
(* thousandths (FactorScale).                                              *)
(***************************************************************************)
MaxLife     == 3       \* bound: project_lifetime of the valid configurations
FactorScale == 1000    \* growth factors and declining-balance rates: thousandths
MonthsPerYear == 12    \* monthly_opex = annual_opex / 12

\* x * (p / 100)
PctOf(x, p) == (x * p) \div PercentDen

\* the largest x with x^n <= v
NthRoot(v, n) == CHOOSE x \in 0..(2 * FactorScale) : Pow(x, n) <= v /\ Pow(x + 1, n) > v

\* (1 + rate/100) ** (k / 2) for odd k <= 3, in thousandths
HalfYearGrowth(rate, k) ==
    NthRoot(Pow(PercentDen + rate, k) * ((FactorScale * FactorScale) \div Pow(PercentDen, k)), 2)

\* salvage_rate ** (1 / useful_life) in thousandths, salvage_rate in percent
LifeRoot(salvage_pct, useful_life) ==
    NthRoot(salvage_pct * (Pow(FactorScale, useful_life) \div PercentDen), useful_life)

\* calculate_capex_schedule_with_idc with capex_schedule = None: the triple
\* (yearly_capex, idc, total_capex_with_idc)
RECURSIVE IdcFrom(_, _, _, _, _)
IdcFrom(yearly_capex, year_idx, construction_period, debt_ratio, interest_rate) ==
    IF year_idx >= Len(yearly_capex) THEN 0
    ELSE LET debt_amount == PctOf(yearly_capex[year_idx + 1], debt_ratio)
             twice_remaining == 2 * (construction_period - year_idx) - 1
             this == IF twice_remaining > 0
                     THEN (debt_amount * (HalfYearGrowth(interest_rate, twice_remaining)
                                          - FactorScale)) \div FactorScale
                     ELSE 0
         IN  this + IdcFrom(yearly_capex, year_idx + 1, construction_period, debt_ratio,
                            interest_rate)

CapexScheduleWithIdc(capex, construction_period, debt_ratio, interest_rate, include_idc) ==
    IF construction_period <= 0
    THEN [yearly_capex |-> <<capex>>, idc |-> 0, total_capex_with_idc |-> capex]
    ELSE LET yearly_capex == [i \in 1..construction_period |-> capex \div construction_period]
             idc == IF include_idc /\ interest_rate > 0
                    THEN IdcFrom(yearly_capex, 0, construction_period, debt_ratio,
                                 interest_rate)
                    ELSE 0
         IN  [yearly_capex |-> yearly_capex, idc |-> idc,
              total_capex_with_idc |-> capex + idc]

\* calculate_working_capital
WorkingCapital(annual_opex, working_capital_months) ==
    IF working_capital_months <= 0 THEN 0
    ELSE ((annual_opex * working_capital_months) \div MonthsPerYear)

\* calculate_salvage_value: the nominal value
SalvageValue(capex, salvage_value_rate) == PctOf(capex, salvage_value_rate)

\* the payment of the equal_payment method:
\* principal * (r * (1 + r) ** n) / ((1 + r) ** n - 1), r = interest_rate / 100
Pmt(principal, interest_rate, repayment_tenor) ==
    IF repayment_tenor > 0 /\ interest_rate > 0
    THEN (principal * interest_rate * Pow(PercentDen + interest_rate, repayment_tenor))
           \div (PercentDen * (Pow(PercentDen + interest_rate, repayment_tenor)
                               - Pow(PercentDen, repayment_tenor)))
    ELSE IF repayment_tenor > 0 THEN principal \div repayment_tenor
    ELSE 0

\* the year loop of calculate_debt_service_detailed and of
\* calculate_debt_service_equal_principal: one [ds, interest, principal]
\* record per year from 'year' on
RECURSIVE DebtYears(_, _, _, _, _, _, _, _)
DebtYears(year, remaining_principal, principal, interest_rate, tenor, grace_period, project_lifetime, repayment_method) ==
    IF year > project_lifetime THEN <<>>
    ELSE LET repayment_tenor == tenor - grace_period
             interest == PctOf(remaining_principal, interest_rate)
             principal_payment ==
                 IF year <= grace_period THEN 0
                 ELSE IF year <= tenor
                 THEN (IF repayment_method = "equal_principal"
                       THEN (IF repayment_tenor > 0 THEN principal \div repayment_tenor ELSE 0)
                       ELSE Pmt(principal, interest_rate, repayment_tenor) - interest)
                 ELSE 0
             row == IF year <= grace_period
                    THEN [ds |-> interest, interest |-> interest, principal |-> 0]
                    ELSE IF year <= tenor
                    THEN [ds |-> interest + principal_payment, interest |-> interest,
                          principal |-> principal_payment]
                    ELSE [ds |-> 0, interest |-> 0, principal |-> 0]
         IN  <<row>> \o DebtYears(year + 1, remaining_principal - principal_payment,
                                  principal, interest_rate, tenor, grace_period,
                                  project_lifetime, repayment_method)

\* calculate_debt_service_detailed
DebtServiceDetailed(principal, interest_rate, tenor, grace_period, project_lifetime, repayment_method) ==
    IF principal <= 0 \/ tenor <= 0
    THEN [y \in 1..project_lifetime |-> [ds |-> 0, interest |-> 0, principal |-> 0]]
    ELSE DebtYears(1, principal, principal, interest_rate, tenor, grace_period,
                   project_lifetime, repayment_method)

\* calculate_depreciation, declining balance, one asset class: the charges
\* of the years from 'year' on
RECURSIVE DecliningCharges(_, _, _, _, _, _)
DecliningCharges(year, book_value, salvage, rate, useful_life, project_lifetime) ==
    IF year > project_lifetime THEN <<>>
    ELSE LET dep == IF year <= useful_life /\ book_value > salvage
                    THEN Min2((book_value * rate) \div FactorScale, book_value - salvage)
                    ELSE 0
         IN  <<dep>> \o DecliningCharges(year + 1, book_value - dep, salvage, rate,
                                         useful_life, project_lifetime)

\* calculate_depreciation, one asset class: cost, residual value and the
\* charge of every project year
StraightLineBeyondLife(class_capex, useful_life, tax_config, project_lifetime) ==
    LET salvage == PctOf(class_capex, tax_config.salvage_value_rate)
    IN  [cost |-> class_capex, salvage |-> salvage, life |-> useful_life,
         charges |-> [y \in 1..project_lifetime |->
                         (class_capex - salvage) \div useful_life]]
ClassDepreciation(class_capex, useful_life, tax_config, project_lifetime) ==
    LET salvage     == PctOf(class_capex, tax_config.salvage_value_rate)
        depreciable == class_capex - salvage
        salvage_rate == IF tax_config.salvage_value_rate <= 0 THEN 5
                        ELSE tax_config.salvage_value_rate
        rate == IF useful_life > 0 THEN FactorScale - LifeRoot(salvage_rate, useful_life)
                ELSE 0
    IN  [cost    |-> class_capex,
         salvage |-> salvage,
         life    |-> useful_life,
         charges |->
            IF tax_config.depreciation_method = "declining_balance"
            THEN DecliningCharges(1, class_capex, salvage, rate, useful_life,
                                  project_lifetime)
            ELSE [y \in 1..project_lifetime |->
                     IF y <= useful_life THEN depreciable \div useful_life ELSE 0]]

\* calculate_depreciation: the two classes and the list it returns
BuildingDepreciation(capex, tax_config, project_lifetime) ==
    ClassDepreciation(PctOf(capex, tax_config.building_ratio),
                      tax_config.building_useful_life, tax_config, project_lifetime)
EquipmentDepreciation(capex, tax_config, project_lifetime) ==
    ClassDepreciation(capex - PctOf(capex, tax_config.building_ratio),
                      tax_config.electrolyzer_useful_life, tax_config, project_lifetime)
CalculateDepreciation(capex, tax_config, project_lifetime) ==
    [y \in 1..project_lifetime |->
        BuildingDepreciation(capex, tax_config, project_lifetime).charges[y]
        + EquipmentDepreciation(capex, tax_config, project_lifetime).charges[y]]

\* BRACKETS of calculate_corporate_tax: (upper limit, rate %), limits in units
\* of 10^8 won; the last bracket has no limit
Brackets == << [limit |-> 2, rate |-> 10], [limit |-> 200, rate |-> 20],
               [limit |-> 3000, rate |-> 22] >>
TopRate == 25
LocalTaxPct == 10      \* local_tax = corporate_tax * 0.10

\* the bracket loop: tax on remaining_income, in hundredths of a unit
RECURSIVE BracketTax(_, _, _)
BracketTax(remaining_income, prev_limit, k) ==
    IF remaining_income <= 0 THEN 0
    ELSE IF k > Len(Brackets) THEN remaining_income * TopRate
    ELSE LET bracket_amount == Min2(remaining_income, Brackets[k].limit - prev_limit)
         IN  bracket_amount * Brackets[k].rate
             + BracketTax(remaining_income - bracket_amount, Brackets[k].limit, k + 1)

\* calculate_corporate_tax(taxable_income, tax_config) with use_progressive = True
CalculateCorporateTax(taxable_income) ==
    IF taxable_income <= 0 THEN 0
    ELSE LET corporate_tax == BracketTax(taxable_income, 0, 1)
         IN  (corporate_tax + PctOf(corporate_tax, LocalTaxPct)) \div PercentDen

\* the configurations of the model; each profile switches one group of
\* settings on or off
CapexSubsidyProfiles == {[capex_subsidy |-> 0, capex_subsidy_rate |-> 0],
                         [capex_subsidy |-> 200, capex_subsidy_rate |-> 10]}
TaxCreditProfiles == {FALSE, TRUE}        \* itc_enabled and ptc_enabled
RevenueIncentiveProfiles == {FALSE, TRUE} \* operating subsidy, carbon credit, premium
\* TaxConfig.depreciation_method and salvage_value_rate (0: the 5% fallback of
\* the declining-balance rate)
DepreciationProfiles ==
    {[depreciation_method |-> "straight_line", salvage_value_rate |-> 25],
     [depreciation_method |-> "declining_balance", salvage_value_rate |-> 25],
     [depreciation_method |-> "declining_balance", salvage_value_rate |-> 0]}

FinConfig(debt_ratio, discount_rate, project_lifetime, interest_rate, grace_period, repayment_method, subsidy, credits, revenue_incentives, depreciation) ==
    [capex |-> 2000, opex_ratio |-> 6, stack_replacement_cost |-> 30,
     discount_rate |-> discount_rate, project_lifetime |-> project_lifetime,
     debt_ratio |-> debt_ratio, interest_rate |-> interest_rate, loan_tenor |-> 2,
     construction_period |-> 1, grace_period |-> grace_period,
     repayment_method |-> repayment_method, working_capital_months |-> 2,
     include_idc |-> TRUE,
     tax_config |->
        [depreciation_method |-> depreciation.depreciation_method,
         electrolyzer_useful_life |-> 2, building_useful_life |-> 3, building_ratio |-> 10,
         salvage_value_rate |-> depreciation.salvage_value_rate],
     incentives_config |->
        [itc_enabled |-> credits, itc_rate |-> 10,
         ptc_enabled |-> credits, ptc_amount |-> 1, ptc_duration |-> 2,
         capex_subsidy |-> subsidy.capex_subsidy,
         capex_subsidy_rate |-> subsidy.capex_subsidy_rate,
         operating_subsidy |-> IF revenue_incentives THEN 2 ELSE 0,
         operating_subsidy_duration |-> 2,
         carbon_credit_enabled |-> revenue_incentives, carbon_credit_price |-> 1,
         clean_h2_certification_enabled |-> revenue_incentives, clean_h2_premium |-> 1]]

FinConfigs ==
    {FinConfig(dr, disc, life, ir, gp, rm, sub, cr, ri, dm) :
        dr \in {-10, 0, 50, 100, 110}, disc \in {-5, 10}, life \in {0, MaxLife},
        ir \in {0, 21}, gp \in {0, 1}, rm \in {"equal_payment", "equal_principal"},
        sub \in CapexSubsidyProfiles, cr \in TaxCreditProfiles,
        ri \in RevenueIncentiveProfiles,
        dm \in DepreciationProfiles}

\* the yearly series handed in: a profitable and a loss-making project
FinSeries(project_lifetime) ==
    {[yearly_revenues          |-> [y \in 1..project_lifetime |-> rev],
      yearly_electricity_costs |-> [y \in 1..project_lifetime |-> 50],
      yearly_h2_production     |-> [y \in 1..project_lifetime |-> 100],
      stack_replacement_years  |-> {2}] : rev \in {100, 1500}}

\* lines 830-836: the input validation
FinInputValid(config) ==
    /\ ~(config.debt_ratio < 0 \/ config.debt_ratio > 100)
    /\ ~(config.discount_rate < 0)
    /\ ~(config.project_lifetime <= 0)

\* line 1001: tax = max(0, gross_tax - ptc_credit - itc_credit)
TaxWithoutFloor(gross_tax, ptc_credit, itc_credit) == gross_tax - ptc_credit - itc_credit
TaxAfterCredits(gross_tax, ptc_credit, itc_credit) ==
    Max2(0, gross_tax - ptc_credit - itc_credit)

\* equity_amount = effective_capex - debt_amount
EquityWithoutDebt(effective_capex, debt_amount) == effective_capex
EquityAmount(effective_capex, debt_amount) == effective_capex - debt_amount

\* lines 838-897: everything computed before the year loop
FinSetupValues(config) ==
    LET tax_config  == config.tax_config
        incentives  == config.incentives_config
        capex_subsidy_total ==
            incentives.capex_subsidy + PctOf(config.capex, incentives.capex_subsidy_rate)
        net_capex   == config.capex - capex_subsidy_total
        sched       == CapexScheduleWithIdc(net_capex, config.construction_period,
                                            config.debt_ratio, config.interest_rate,
                                            config.include_idc)
        effective_capex == sched.total_capex_with_idc
        itc_amount  == IF incentives.itc_enabled THEN PctOf(config.capex, incentives.itc_rate)
                       ELSE 0
        debt_amount == PctOf(effective_capex, config.debt_ratio)
        equity_amount == EquityAmount(effective_capex, debt_amount)
        annual_opex == PctOf(config.capex, config.opex_ratio)
    IN  [capex_subsidy_total   |-> capex_subsidy_total,
         net_capex             |-> net_capex,
         idc_amount            |-> sched.idc,
         total_capex_with_idc  |-> sched.total_capex_with_idc,
         effective_capex       |-> effective_capex,
         itc_amount            |-> itc_amount,
         debt_amount           |-> debt_amount,
         equity_amount         |-> equity_amount,
         annual_opex           |-> annual_opex,
         working_capital       |-> WorkingCapital(annual_opex, config.working_capital_months),
         salvage_value         |-> SalvageValue(config.capex, tax_config.salvage_value_rate),
         debt_schedule         |-> DebtServiceDetailed(debt_amount, config.interest_rate,
                                       config.loan_tenor, config.grace_period,
                                       config.project_lifetime, config.repayment_method),
         depreciation_base     |-> config.capex,
         depreciation_schedule |-> CalculateDepreciation(config.capex, tax_config,
                                                         config.project_lifetime)]

Inf == [kind |-> "inf"]        \* float("inf")

\* one pass of the year loop, lines 927-1052: the YearlyCashflow appended,
\* together with the loop's locals that the record does not keep
FinYearRow(config, setup, series, year, cumulative) ==
    LET incentives == config.incentives_config
        at(list, dflt) == IF year <= Len(list) THEN list[year] ELSE dflt
        revenue       == at(series.yearly_revenues, 0)
        elec_cost     == at(series.yearly_electricity_costs, 0)
        h2_production == at(series.yearly_h2_production, 0)
        operating_subsidy ==
            IF incentives.operating_subsidy > 0
               /\ year <= incentives.operating_subsidy_duration
            THEN h2_production * incentives.operating_subsidy ELSE 0
        carbon_credit_revenue ==
            IF incentives.carbon_credit_enabled
            THEN h2_production * incentives.carbon_credit_price ELSE 0
        clean_h2_premium_revenue ==
            IF incentives.clean_h2_certification_enabled
            THEN h2_production * incentives.clean_h2_premium ELSE 0
        incentive_revenue == operating_subsidy + carbon_credit_revenue
                             + clean_h2_premium_revenue
        total_revenue == revenue + incentive_revenue
        stack_cost    == IF year \in series.stack_replacement_years
                         THEN config.stack_replacement_cost ELSE 0
        depreciation  == at(setup.depreciation_schedule, 0)
        debt_row      == at(setup.debt_schedule, [ds |-> 0, interest |-> 0, principal |-> 0])
        ds            == debt_row.ds
        interest      == debt_row.interest
        principal     == debt_row.principal
        total_opex    == setup.annual_opex + elec_cost + stack_cost
        ebitda        == total_revenue - total_opex
        ebit          == ebitda - depreciation
        ebt           == ebit - interest
        ptc_credit    == IF incentives.ptc_enabled /\ year <= incentives.ptc_duration
                         THEN h2_production * incentives.ptc_amount ELSE 0
        itc_credit    == IF year = 1 THEN setup.itc_amount ELSE 0
        gross_tax     == IF ebt > 0 THEN CalculateCorporateTax(ebt) ELSE 0
        tax           == TaxAfterCredits(gross_tax, ptc_credit, itc_credit)
        net_income    == ebt - tax
        terminal_value == IF year = config.project_lifetime
                          THEN setup.salvage_value + setup.working_capital ELSE 0
        net_cf_project    == ebitda + terminal_value
        net_cf_before_tax == ebitda - ds + terminal_value
        net_cf_after_tax  == net_income + depreciation - principal + terminal_value
        dscr == IF ds > 0 THEN Num((ebitda * FactorScale) \div ds) ELSE Inf
    IN  [year |-> year, revenue |-> total_revenue, opex |-> total_opex,
         stack_replacement |-> stack_cost, debt_service |-> ds,
         net_cashflow |-> net_cf_before_tax,
         cumulative_cashflow |-> cumulative + net_cf_before_tax,
         dscr |-> dscr, depreciation |-> depreciation, ebitda |-> ebitda, ebit |-> ebit,
         interest_expense |-> interest, principal_repayment |-> principal, tax |-> tax,
         net_cashflow_after_tax |-> net_cf_after_tax,
         \* locals of the loop
         h2_production |-> h2_production, operating_subsidy |-> operating_subsidy,
         carbon_credit_revenue |-> carbon_credit_revenue,
         clean_h2_premium_revenue |-> clean_h2_premium_revenue,
         ebt |-> ebt, gross_tax |-> gross_tax, ptc_credit |-> ptc_credit,
         itc_credit |-> itc_credit, net_cf_project |-> net_cf_project]

RECURSIVE SeqMin(_)
SeqMin(q) == IF Len(q) = 1 THEN q[1] ELSE Min2(q[1], SeqMin(Tail(q)))

\* lines 1091-1093; DSCR values are in thousandths
DscrMin(dscr_values) == IF dscr_values # <<>> THEN SeqMin(dscr_values) ELSE 0
DscrAvgOverLifetime(dscr_values) ==
    IF dscr_values # <<>> THEN SeqSum(dscr_values) \div MaxLife ELSE 0
DscrAvg(dscr_values) ==
    IF dscr_values # <<>> THEN SeqSum(dscr_values) \div Len(dscr_values) ELSE 0

\* 1 / ((1 + r) ** t) in thousandths, r = rate / 100
RECURSIVE DiscountFactor(_, _)
DiscountFactor(rate, t) ==
    IF t = 0 THEN FactorScale
    ELSE (DiscountFactor(rate, t - 1) * PercentDen) \div (PercentDen + rate)
PresentValue(x, rate, t) == (x * DiscountFactor(rate, t)) \div FactorScale

\* calculate_llcr_plcr: the two ratios in thousandths, +inf without debt
CalculateLlcrPlcr(config, yearly_cashflows) ==
    LET debt_amount == PctOf(config.capex, config.debt_ratio)
        cfads_pv == [y \in 1..Len(yearly_cashflows) |->
                       PresentValue(yearly_cashflows[y].ebitda - yearly_cashflows[y].tax,
                                    config.discount_rate, y)]
        loan_life == [y \in 1..Len(yearly_cashflows) |->
                        IF y <= config.loan_tenor THEN cfads_pv[y] ELSE 0]
    IN  IF debt_amount <= 0 THEN [llcr |-> Inf, plcr |-> Inf]
        ELSE [llcr |-> Num((SeqSum(loan_life) * FactorScale) \div debt_amount),
              plcr |-> Num((SeqSum(cfads_pv) * FactorScale) \div debt_amount)]

\* _calculate_payback, in thousandths of a year
CalculatePayback(yearly_cashflows) ==
    LET reached == {i \in 1..Len(yearly_cashflows) :
                       yearly_cashflows[i].cumulative_cashflow >= 0}
    IN  IF reached = {} THEN Len(yearly_cashflows) * FactorScale
        ELSE LET i == CHOOSE k \in reached : \A m \in reached : k <= m
             IN  IF i = 1 THEN FactorScale
                 ELSE (i - 1) * FactorScale
                      + ((0 - yearly_cashflows[i - 1].cumulative_cashflow) * FactorScale)
                            \div yearly_cashflows[i].net_cashflow

\* calculate_lcoh_accurate, in thousandths of a money unit per kg
CalculateLcohAccurate(config, annual_opex, series) ==
    LET at(list, y) == IF y <= Len(list) THEN list[y] ELSE 0
        cost_pv == [y \in 1..config.project_lifetime |->
                      PresentValue(annual_opex + at(series.yearly_electricity_costs, y)
                                   + (IF y \in series.stack_replacement_years
                                      THEN config.stack_replacement_cost ELSE 0),
                                   config.discount_rate, y)]
        h2_pv   == [y \in 1..config.project_lifetime |->
                      PresentValue(at(series.yearly_h2_production, y),
                                   config.discount_rate, y)]
    IN  IF SeqSum(h2_pv) <= 0 THEN 0
        ELSE ((config.capex + SeqSum(cost_pv)) * FactorScale) \div SeqSum(h2_pv)

\* calculate_equity_cashflows: year 0 is config.capex * (1 - debt_ratio / 100)
CalculateEquityCashflows(config, yearly_cashflows) ==
    <<0 - PctOf(config.capex, PercentDen - config.debt_ratio)>>
        \o [y \in 1..Len(yearly_cashflows) |-> yearly_cashflows[y].net_cashflow_after_tax]

\* cashflows_after_tax of run_financial_analysis (lines 919-925, 1026)
CashflowsAfterTax(setup, yearly_cashflows) ==
    <<0 - (setup.equity_amount + setup.working_capital)>>
        \o [y \in 1..Len(yearly_cashflows) |-> yearly_cashflows[y].net_cashflow_after_tax]

\* safe_json_float(val, default=0.0, max_val=9999.99) of run_full_simulation
JsonMaxVal == 9999990      \* max_val = 9999.99 in thousandths
UnclampedFloat(val, default, max_val) == val
SafeJsonFloat(val, default, max_val) ==
    IF val.kind \in {"none", "nan", "inf"} THEN Num(default)
    ELSE IF val.v > max_val THEN Num(max_val)
    ELSE val

FinInit ==
    /\ f_config \in FinConfigs
    /\ f_series \in FinSeries(f_config.project_lifetime)
    /\ f_pc = "call"
    /\ f_setup = NoneVal
    /\ f_yearly = <<>>
    /\ f_dscr_values = <<>>
    /\ f_result = NoneVal
    /\ f_summary = NoneVal

\* lines 829-836: raise ValueError or go on
FinValidate ==
    /\ f_pc = "call"
    /\ f_pc' = IF FinInputValid(f_config) THEN "setup" ELSE "raised"
    /\ UNCHANGED <<f_config, f_series, f_setup, f_yearly, f_dscr_values, f_result,
                   f_summary>>
    /\ UNCHANGED notFin

\* lines 838-925
FinSetup ==
    /\ f_pc = "setup"
    /\ f_setup' = FinSetupValues(f_config)
    /\ f_pc' = "years"
    /\ UNCHANGED <<f_config, f_series, f_yearly, f_dscr_values, f_result, f_summary>>
    /\ UNCHANGED notFin

\* one iteration of 'for year in range(1, config.project_lifetime + 1)'
FinYear ==
    /\ f_pc = "years"
    /\ Len(f_yearly) < f_config.project_lifetime
    /\ LET year == Len(f_yearly) + 1
           cumulative == IF f_yearly = <<>>
                         THEN 0 - (f_setup.equity_amount + f_setup.working_capital)
                         ELSE f_yearly[Len(f_yearly)].cumulative_cashflow
           row == FinYearRow(f_config, f_setup, f_series, year, cumulative)
       IN  /\ f_yearly' = Append(f_yearly, row)
           /\ f_dscr_values' = IF row.debt_service > 0
                               THEN Append(f_dscr_values, row.dscr.v)
                               ELSE f_dscr_values
    /\ UNCHANGED <<f_config, f_series, f_pc, f_setup, f_result, f_summary>>
    /\ UNCHANGED notFin

\* lines 1054-1113: the aggregates and return FinancialResult(...); of the
\* result the DSCR aggregates, the yearly cash flows and the capital figures
\* are modelled
FinReturn ==
    /\ f_pc = "years"
    /\ Len(f_yearly) = f_config.project_lifetime
    /\ f_result' = [dscr_min |-> DscrMin(f_dscr_values),
                    dscr_avg |-> DscrAvg(f_dscr_values),
                    yearly_cashflows |-> f_yearly,
                    llcr |-> CalculateLlcrPlcr(f_config, f_yearly).llcr,
                    plcr |-> CalculateLlcrPlcr(f_config, f_yearly).plcr,
                    payback_period |-> CalculatePayback(f_yearly),
                    lcoh |-> CalculateLcohAccurate(f_config, f_setup.annual_opex, f_series),
                    cashflows_after_tax |-> CashflowsAfterTax(f_setup, f_yearly),
                    equity_cashflows |-> CalculateEquityCashflows(f_config, f_yearly),
                    total_capex_with_idc |-> f_setup.total_capex_with_idc,
                    idc_amount |-> f_setup.idc_amount,
                    working_capital |-> f_setup.working_capital,
                    salvage_value |-> f_setup.salvage_value]
    /\ f_pc' = "returned"
    /\ UNCHANGED <<f_config, f_series, f_setup, f_yearly, f_dscr_values, f_summary>>
    /\ UNCHANGED notFin

\* run_full_simulation, lines 414-525: CapitalSummary(...) and the KPIs and
\* yearly rows that pass through safe_json_float
BuildCapitalSummary ==
    /\ f_pc = "returned"
    /\ LET debt_amount == PctOf(f_result.total_capex_with_idc, f_config.debt_ratio)
           equity_amount == EquityAmount(f_result.total_capex_with_idc, debt_amount)
       IN  f_summary' = [total_capex |-> f_config.capex,
                         idc_amount |-> f_result.idc_amount,
                         total_capex_with_idc |-> f_result.total_capex_with_idc,
                         debt_amount |-> debt_amount,
                         equity_amount |-> equity_amount,
                         working_capital |-> f_result.working_capital,
                         salvage_value |-> f_result.salvage_value,
                         dscr |-> [min |-> SafeJsonFloat(Num(f_result.dscr_min), 0,
                                                         JsonMaxVal),
                                   avg |-> SafeJsonFloat(Num(f_result.dscr_avg), 0,
                                                         JsonMaxVal)],
                         payback_period |->
                             SafeJsonFloat(Num(f_result.payback_period),
                                           f_config.project_lifetime * FactorScale,
                                           JsonMaxVal),
                         \* the limit 9999.99 won/kg in money units of 10^8 won
                         lcoh |-> SafeJsonFloat(Num(f_result.lcoh), 0,
                                                JsonMaxVal \div 100000000),
                         coverage_ratios |->
                             [llcr |-> SafeJsonFloat(f_result.llcr, 0, JsonMaxVal),
                              plcr |-> SafeJsonFloat(f_result.plcr, 0, JsonMaxVal)],
                         yearly_dscr |->
                             [y \in 1..Len(f_result.yearly_cashflows) |->
                                 SafeJsonFloat(f_result.yearly_cashflows[y].dscr, 0,
                                               JsonMaxVal)]]
    /\ f_pc' = "summary"
    /\ UNCHANGED <<f_config, f_series, f_setup, f_yearly, f_dscr_values, f_result>>
    /\ UNCHANGED notFin

(***************************************************************************)
(* Components at rest: the values the other components' variables keep     *)
(* while one component is checked                                          *)
(***************************************************************************)
IrrIdle    == cashflows = <<>> /\ irr = NoIrr /\ irr_pc = "idle"
EnergyIdle == /\ e_config = NoneVal /\ e_prices = <<>> /\ e_draws = <<>>
              /\ e_year = 0 /\ e_result = NoneVal /\ e_yearly = <<>>
              /\ e_renewable = NoneVal /\ e_pc = "idle" /\ e_profile = NoneVal
              /\ e_masks = {} /\ np_random = 0
McIdle     == mc_dist = <<>> /\ mc_result = NoneVal
RunnerIdle == fin_result = NoneVal /\ kpis = NoneVal
FinIdle    == /\ f_config = NoneVal /\ f_series = NoneVal /\ f_pc = "idle"
              /\ f_setup = NoneVal /\ f_yearly = <<>> /\ f_dscr_values = <<>>
              /\ f_result = NoneVal /\ f_summary = NoneVal
GridIdle   == GridInit
SensIdle   == sens_args = NoneVal /\ sens_results = NoneVal
DebtIdle   == debt_args = NoneVal /\ debt_schedule = NoneVal

(***************************************************************************)
(* Spec: the grid-search job                                               *)
(***************************************************************************)
Init == GridInit /\ IrrIdle /\ EnergyIdle /\ McIdle /\ RunnerIdle /\ FinIdle /\ SensIdle /\ DebtIdle

Next ==
    \/ \E req \in Requests : StartGridSearch(req)
    \/ CancelGridSearch
    \/ JobBegin
    \/ JobGenerate
    \/ JobNextCombination
    \/ JobSimulate
    \/ JobSortAndComplete
    \/ JobStoreResults

Spec == Init /\ [][Next]_vars

(***************************************************************************)
(* Claims about the grid search                                            *)
(***************************************************************************)
SortableTargets == {"npv_p50", "irr_p50", "lcoh"}

\* a does not come after b in the order the target KPI asks for
InTargetOrder(a, b, target_kpi) ==
    IF target_kpi = "lcoh" THEN a.lcoh <= b.lcoh
    ELSE IF target_kpi = "irr_p50" THEN a.irr_p50 >= b.irr_p50
    ELSE a.npv_p50 >= b.npv_p50

StrictlyBetter(a, b, target_kpi) == ~InTargetOrder(b, a, target_kpi)

\* C1 (as claimed): once cancel_grid_search has been called for a job that is
\* pending or running, run_grid_search_job starts no further combination.
C1_NoCombinationStartsAfterCancel == started_after_cancel = {}

\* C2 (as claimed): a request whose enumerated number of combinations exceeds
\* max_combinations is rejected: no job record, no background task, no
\* simulation.
C2_OverCapRequestRejected ==
    (request # NoRequest
       /\ Len(GenerateCombinations(request.variable_ranges)) > request.max_combinations)
    => (response = "rejected" /\ job = NoJob /\ pc = "idle" /\ sims_run = 0)

RankedByTarget(rs, target_kpi) ==
    /\ \A i \in 1..Len(rs) : rs[i].rank = i
    /\ \A i, j \in 1..Len(rs) : i < j => InTargetOrder(rs[i], rs[j], target_kpi)

\* C9: when the job (or run_batch) finishes with target_kpi among npv_p50,
\* irr_p50 and lcoh, the results are in target order (non-increasing npv_p50 or
\* irr_p50, non-decreasing lcoh), their ranks are 1..n in that order, and
\* best_result is the rank-1 result, which no result strictly beats.
C9_ResultsRankedByTargetKpi ==
    (pc = "done" /\ job.status = "completed" /\ request.target_kpi \in SortableTargets)
    => /\ RankedByTarget(results, request.target_kpi)
       /\ RankedByTarget(job.results, request.target_kpi)
       /\ job.best_result = (IF results = <<>> THEN NoneVal ELSE results[1])
       /\ \A i \in 1..Len(results) :
             ~StrictlyBetter(results[i], job.best_result, request.target_kpi)
       /\ (\A c \in Range(combinations) : ApplyCombination(c) \in DOMAIN sim_memo)
            => RankedByTarget(RunBatch(combinations, request.target_kpi, sim_memo),
                              request.target_kpi)

C9_Witness ==
    /\ pc = "done" /\ job.status = "completed" /\ request.target_kpi = "lcoh"
    /\ Len(job.results) >= 2
    /\ job.results[1].lcoh < job.results[Len(job.results)].lcoh
    /\ job.best_result = job.results[1]

\* the orders obtained from s by exchanging two positions
Exchanges(s) ==
    { [k \in 1..Len(s) |-> IF k = i THEN s[j] ELSE IF k = j THEN s[i] ELSE s[k]] :
        i \in 1..Len(s), j \in 1..Len(s) }

RankOf(rs, combo) ==
    IF \E i \in 1..Len(rs) : rs[i].combination = combo
    THEN (CHOOSE i \in 1..Len(rs) : rs[i].combination = combo)
    ELSE 0

\* C10 (as claimed): the final ranking depends on the KPI values only:
\* evaluating the same combinations in another order gives every combination
\* the same rank and the same best_result.
C10_RankingIndependentOfOrder ==
    (pc = "done" /\ job.status = "completed" /\ idx > Len(combinations)
       /\ request.target_kpi \in SortableTargets)
    => \A other \in Exchanges(combinations) :
          LET rb == RunBatch(other, request.target_kpi, sim_memo)
          IN  /\ \A c \in Range(combinations) : RankOf(rb, c) = RankOf(results, c)
              /\ (rb # <<>> => rb[1] = job.best_result)


\* the failures a job record tallies: the count it holds under any key
\* written by the job (jobs_store[job_id] is given no such key)
TalliedFailures(j) ==
    IF "failed_combinations" \in DOMAIN j THEN j.failed_combinations ELSE 0

\* C11 (as claimed): when a job that was never cancelled has finished, its
\* record accounts for every enumerated combination: completed_combinations
\* plus the tallied failures equals the number of combinations.
C11_FailuresTallied ==
    (pc = "done" /\ job.status = "completed" /\ ~cancel_called) =>
        job.completed_combinations + TalliedFailures(job) = Len(combinations)

\* the values min, min + step, ... of a range that do not exceed max
ExactValues(r) ==
    {r.min_value + i * r.step : i \in 0..((r.max_value - r.min_value) \div r.step)}

\* C12 (as claimed): for ranges with step > 0 and min <= max the list
\* generate_combinations returns is the Cartesian product of the per-variable
\* values min, min + step, ... not exceeding max, each combination once, and
\* its length equals the total_combinations of the cap check.
C12_CombinationsAreExactProduct ==
    (pc \in {"loop", "sim", "sort", "store"}
       /\ \A i \in 1..Len(request.variable_ranges) :
            LET r == request.variable_ranges[i]
            IN  r.step > 0 /\ r.min_value <= r.max_value) =>
        LET ranges == request.variable_ranges
            names  == {ranges[i].name : i \in 1..Len(ranges)}
            byName == [n \in names |->
                          ExactValues(CHOOSE r \in Range(ranges) : r.name = n)]
        IN  /\ Range(combinations) = {c \in [names -> UNION {byName[n] : n \in names}] :
                                          \A n \in names : c[n] \in byName[n]}
            /\ \A j, k \in 1..Len(combinations) :
                   combinations[j] = combinations[k] => j = k
            /\ Len(combinations) = job.total_combinations

\* the KPI a result holds under the name of a documented target
TargetKpiOf(r, target_kpi) ==
    IF target_kpi = "lcoh" THEN r.lcoh
    ELSE IF target_kpi = "irr_p50" THEN r.irr_p50
    ELSE r.npv_p50

StrictlyIncreasing(s) == \A i, j \in 1..Len(s) : i < j => s[i] < s[j]

\* h is the heatmap of the results rs for the variables xv, yv and the target
HeatmapOf(h, rs, xv, yv, target_kpi) ==
    /\ h # NoneVal
    /\ StrictlyIncreasing(h.x_values) /\ StrictlyIncreasing(h.y_values)
    /\ Range(h.x_values) = {rs[k].combination[xv] : k \in 1..Len(rs)}
    /\ Range(h.y_values) = {rs[k].combination[yv] : k \in 1..Len(rs)}
    /\ Len(h.z_matrix) = Len(h.y_values)
    /\ \A j \in 1..Len(h.y_values) :
          /\ Len(h.z_matrix[j]) = Len(h.x_values)
          /\ \A i \in 1..Len(h.x_values) :
                LET hits == {k \in 1..Len(rs) :
                               /\ rs[k].combination[xv] = h.x_values[i]
                               /\ rs[k].combination[yv] = h.y_values[j]}
                IN  IF hits = {} THEN h.z_matrix[j][i] = NoneVal
                    ELSE \A k \in hits : h.z_matrix[j][i] = TargetKpiOf(rs[k], target_kpi)

C25_CancelNeverLost ==
    cancel_called => (job.status = "failed" /\ job.error_message = "cancelled by user")

\* C26 (as claimed): the status of a job only moves pending -> running ->
\* completed or failed, and completed and failed are terminal: no later step
\* changes status, results or best_result.  (A cancel that fails a pending
\* job is counted as a forward move.)
C26_StatusMovesForwardOnly ==
    [][job # NoJob =>
         /\ job'.status # job.status =>
               \/ job.status = "pending" /\ job'.status \in {"running", "failed"}
               \/ job.status = "running" /\ job'.status \in {"completed", "failed"}
         /\ job.status \in {"completed", "failed"} =>
               /\ job'.status = job.status
               /\ job'.results = job.results
               /\ job'.best_result = job.best_result]_vars

\* C28 (as claimed): in every job record 0 <= completed_combinations <=
\* total_combinations and 0 <= progress <= 100, neither of the two ever
\* decreases, and progress is 100 only when completed_combinations equals
\* total_combinations.
C28_ProgressCounters ==
    /\ [](job # NoJob =>
            /\ 0 <= job.completed_combinations
            /\ job.completed_combinations <= job.total_combinations
            /\ 0 <= job.progress.num
            /\ job.progress.num <= 100 * job.progress.den
            /\ (job.progress.num = 100 * job.progress.den
                  => job.completed_combinations = job.total_combinations))
    /\ [][job # NoJob =>
            /\ job'.completed_combinations >= job.completed_combinations
            /\ job'.progress.num * job.progress.den >= job.progress.num * job'.progress.den]_vars

(***************************************************************************)
(* SpecLive: the grid-search job under fair scheduling of the background   *)
(* task, for the ranges VariableRange admits: min_value, max_value and     *)
(* step are unconstrained floats.  Every step of run_grid_search_job is    *)
(* eventually taken (the simulation terminates); requests and cancels     *)
(* come when the client sends them.                                        *)
(***************************************************************************)
LiveRanges ==
    { <<VR("debt_ratio", 0, DebtRatioMax, DebtRatioMax \div GridSteps)>>,
      <<VR("debt_ratio", DebtRatioMax \div 2, 0, DebtRatioMax \div 2)>>,
      <<VR("debt_ratio", DebtRatioMax \div 2, 0, 0 - DebtRatioMax \div 2)>>,
      <<VR("debt_ratio", 0, DebtRatioMax \div 2, 0 - DebtRatioMax \div 2)>> }

LiveRequests ==
    [variable_ranges : LiveRanges,
     target_kpi      : TargetKpis,
     max_combinations: {MaxCombinationsMin}]

NextLive ==
    \/ \E req \in LiveRequests : StartGridSearch(req)
    \/ CancelGridSearch
    \/ JobBegin
    \/ JobGenerate
    \/ JobNextCombination
    \/ JobSimulate
    \/ JobSortAndComplete
    \/ JobStoreResults

SpecLive ==
    /\ Init /\ [][NextLive]_vars
    /\ WF_vars(JobBegin) /\ WF_vars(JobGenerate) /\ WF_vars(JobNextCombination)
    /\ WF_vars(JobSimulate) /\ WF_vars(JobSortAndComplete) /\ WF_vars(JobStoreResults)

\* C27 (as claimed): every accepted job eventually reaches completed or
\* failed, given that each simulation terminates; generate_combinations
\* terminates for every range the schema admits, negative steps and
\* min > max included.
C27_AcceptedJobTerminates ==
    /\ (response = "accepted") ~> (job.status \in {"completed", "failed"})
    /\ (pc = "generate") ~> (pc # "generate")

(***************************************************************************)
(* SpecIrr: _calculate_irr applied to one cash-flow sequence               *)
(***************************************************************************)
InitIrr == IrrInit /\ GridIdle /\ EnergyIdle /\ McIdle /\ RunnerIdle /\ FinIdle /\ SensIdle /\ DebtIdle
NextIrr == CallCalculateIrr
SpecIrr == InitIrr /\ [][NextIrr]_vars

AllSameSign(cfs) ==
    \/ \A i \in 1..Len(cfs) : cfs[i] > 0
    \/ \A i \in 1..Len(cfs) : cfs[i] < 0

GenuineSignChange(cfs) ==
    /\ \E i \in 1..Len(cfs) : cfs[i] < 0
    /\ \E i \in 1..Len(cfs) : cfs[i] > 0

\* the NPV is zero at k or changes sign within one rate unit of k
RootWithinOneUnit(cfs, k) ==
    \/ NpvNum(cfs, k) = 0
    \/ Sign(NpvNum(cfs, Max2(k - 1, RateMin))) * Sign(NpvNum(cfs, k + 1)) <= 0

\* C3 (as claimed): _calculate_irr reports no solution for a sequence whose
\* entries all have the same sign, and a rate it returns lies in
\* [-99%, 1000%] and zeroes the NPV within tolerance.
C3_IrrIsARootInRange ==
    irr_pc = "done" =>
        /\ AllSameSign(cashflows) => ~irr.found
        /\ irr.found => /\ RateMin <= irr.rate /\ irr.rate <= RateMax
                        /\ RootWithinOneUnit(cashflows, irr.rate)

\* C4 (as claimed): a sequence with at least one negative and one positive
\* entry, zero entries between them or not, always gets a rate.
C4_SignChangeGivesRate ==
    (irr_pc = "done" /\ GenuineSignChange(cashflows)) => irr.found


(***************************************************************************)
(* SpecEnergy: calculate_8760 and the yearly aggregation                   *)
(***************************************************************************)
InitEnergy == EnergyInit /\ GridIdle /\ IrrIdle /\ McIdle /\ RunnerIdle /\ FinIdle /\ SensIdle /\ DebtIdle
NextEnergy ==
    \/ \E ro \in RenewableOutputs \cup WrongLengthRenewables, y \in 1..MaxYear :
          CallCalculate8760(ro, y)
    \/ AggregateYear
    \/ AggregateReturn
SpecEnergy == InitEnergy /\ [][NextEnergy]_vars

\* the hour is not dispatched: its availability draw failed or its price is
\* above the threshold
NotDispatchedHour(h) ==
    \/ ~(e_draws[e_year][h] < e_config.annual_availability)
    \/ e_prices[h] > e_config.price_threshold

\* C5: in every result of calculate_8760, total_operating_hours is at most
\* the number of hours of the year and equals the number of hours flagged
\* operating, and every hour that is not dispatched has production, revenue,
\* electricity cost and operating power 0.
C5_NonDispatchedHoursAreZero ==
    e_result # NoneVal =>
        /\ e_result.total_operating_hours <= Hours
        /\ e_result.total_operating_hours =
               Cardinality({h \in 1..Hours : e_result.operating_hours[h] = 1})
        /\ \A h \in 1..Hours :
               NotDispatchedHour(h) =>
                   /\ e_result.h2_production[h] = 0
                   /\ e_result.hourly_revenue[h] = 0
                   /\ e_result.hourly_cost[h] = 0
                   /\ e_result.operating_power[h] = 0
                   /\ e_result.operating_hours[h] = 0

\* a result with a dispatched, producing hour, an hour whose draw failed and
\* an hour priced above the threshold
C5_Witness ==
    /\ e_result # NoneVal
    /\ \E h \in 1..Hours : e_result.h2_production[h] > 0 /\ e_result.hourly_cost[h] > 0
    /\ \E h \in 1..Hours : ~(e_draws[e_year][h] < e_config.annual_availability)
    /\ \E h \in 1..Hours : /\ e_draws[e_year][h] < e_config.annual_availability
                           /\ e_prices[h] > e_config.price_threshold

\* C6 (as claimed): over the years of one aggregation (same prices, same
\* configuration) production never rises from a year to the next when
\* degradation_rate > 0 and stays equal when degradation_rate = 0.
C6_DegradationMonotone ==
    \A n \in 1..(Len(e_yearly) - 1) :
        /\ e_config.degradation_rate > 0 =>
               e_yearly[n + 1].h2_production_kg <= e_yearly[n].h2_production_kg
        /\ e_config.degradation_rate = 0 =>
               e_yearly[n + 1].h2_production_kg = e_yearly[n].h2_production_kg


\* what the renewable series allows in operating year n: the hours the
\* availability draw leaves, each at min(renewable_output[hour], capacity)
RenewableAllowance(n) ==
    LET allowed == [h \in 1..Hours |->
                      IF e_draws[n][h] < e_config.annual_availability
                      THEN H2Num(e_config,
                                 Min2(e_profile[h], e_config.electrolyzer_capacity_mw), n)
                      ELSE 0]
    IN  SumUpTo(allowed, Hours)

\* C17 (as claimed): for a renewable-only configuration every year of the
\* multi-year results is dispatched at min(renewable_output[hour], capacity)
\* in its available hours, so no year's production exceeds what the
\* renewable output series allows.
C17_RenewableOnlyYearsFollowRenewableOutput ==
    e_profile # NoneVal =>
        \A n \in 1..Len(e_yearly) :
            e_yearly[n].h2_production_kg <= RenewableAllowance(n)

(***************************************************************************)
(* SpecMC: the percentile report of run_monte_carlo                        *)
(***************************************************************************)
InitMC == McInit /\ GridIdle /\ IrrIdle /\ EnergyIdle /\ RunnerIdle /\ FinIdle /\ SensIdle /\ DebtIdle
NextMC ==
    \/ \E o \in IterationOutcomes : McIteration(o)
    \/ McReturn
SpecMC == InitMC /\ [][NextMC]_vars

Ordered(t) == t.p50 >= t.p90 /\ t.p90 >= t.p99

\* C7: every report of run_monte_carlo has p50 >= p90 >= p99 for npv, irr,
\* npv_after_tax and equity_irr.
C7_MonteCarloPercentilesOrdered ==
    mc_result # NoneVal =>
        /\ Ordered(mc_result.npv)
        /\ Ordered(mc_result.irr)
        /\ Ordered(mc_result.npv_after_tax)
        /\ Ordered(mc_result.equity_irr)

\* a report over a sample with distinct values, negative ones among them,
\* whose three NPV percentiles are strictly apart
C7_Witness ==
    /\ mc_result # NoneVal
    /\ \E i \in 1..Len(mc_dist.npv) : mc_dist.npv[i] < 0
    /\ mc_result.npv.p50 > mc_result.npv.p90
    /\ mc_result.npv.p90 > mc_result.npv.p99
    /\ mc_result.irr.p50 > mc_result.irr.p99

(***************************************************************************)
(* SpecRunner: the KPI block of run_full_simulation                        *)
(***************************************************************************)
InitRunner == RunnerInit /\ GridIdle /\ IrrIdle /\ EnergyIdle /\ McIdle /\ FinIdle /\ SensIdle /\ DebtIdle
NextRunner == BuildKpis
SpecRunner == InitRunner /\ [][NextRunner]_vars

OrderedTriple(t) == t.p50.v >= t.p90.v /\ t.p90.v >= t.p99.v

\* C8 (as claimed): every P50/P90/P99 triple of the KPIs (NPV, IRR, after-tax
\* NPV, Equity IRR) has p50 >= p90 >= p99, negative NPV or IRR included.
C8_KpiTriplesOrdered ==
    kpis # NoneVal =>
        /\ OrderedTriple(kpis.npv)
        /\ OrderedTriple(kpis.irr)
        /\ OrderedTriple(kpis.npv_after_tax)
        /\ OrderedTriple(kpis.equity_irr)


(***************************************************************************)
(* SpecFin: run_financial_analysis and the capital summary                 *)
(***************************************************************************)
InitFin == FinInit /\ GridIdle /\ IrrIdle /\ EnergyIdle /\ McIdle /\ RunnerIdle /\ SensIdle /\ DebtIdle
NextFin ==
    \/ FinValidate
    \/ FinSetup
    \/ FinYear
    \/ FinReturn
    \/ BuildCapitalSummary
SpecFin == InitFin /\ [][NextFin]_vars

\* C13: the debt amount the debt schedule is built on plus the equity amount
\* is the effective CAPEX (net of capital subsidies, plus IDC), and so are
\* the debt and equity amounts of the capital summary.
C13_DebtPlusEquityIsEffectiveCapex ==
    /\ f_setup # NoneVal =>
          /\ f_setup.debt_amount + f_setup.equity_amount = f_setup.effective_capex
          /\ f_setup.effective_capex =
                 f_config.capex - f_setup.capex_subsidy_total + f_setup.idc_amount
          /\ f_setup.debt_schedule =
                 DebtServiceDetailed(f_setup.debt_amount, f_config.interest_rate,
                                     f_config.loan_tenor, f_config.grace_period,
                                     f_config.project_lifetime, f_config.repayment_method)
    /\ f_summary # NoneVal =>
          /\ f_summary.debt_amount + f_summary.equity_amount = f_setup.effective_capex
          /\ f_summary.debt_amount = f_setup.debt_amount

\* a summary of a project with a capital subsidy, IDC and both debt and equity
C13_Witness ==
    /\ f_summary # NoneVal
    /\ f_setup.capex_subsidy_total > 0
    /\ f_setup.idc_amount > 0
    /\ f_summary.debt_amount > 0
    /\ f_summary.equity_amount > 0

\* the DSCR (in thousandths) of the years with nonzero debt service, in year order
DscrOfDebtYears(rows) ==
    LET debt_years == SelectSeq(rows, LAMBDA r : r.debt_service # 0)
    IN  [i \in 1..Len(debt_years) |-> debt_years[i].dscr.v]

\* C14: in every project year DSCR is EBITDA / debt service when debt
\* service is positive and +infinity when it is zero (nothing is raised for
\* a valid input), and dscr_min and dscr_avg are the minimum and the mean of
\* the DSCR of exactly the years with nonzero debt service.
C14_DscrPerYearAndAggregates ==
    /\ f_pc = "raised" => ~FinInputValid(f_config)
    /\ \A y \in 1..Len(f_yearly) :
          LET r == f_yearly[y]
          IN  /\ r.debt_service > 0 =>
                    /\ r.dscr.kind = "finite"
                    /\ r.dscr.v = (r.ebitda * FactorScale) \div r.debt_service
              /\ r.debt_service = 0 => r.dscr.kind = "inf"
              /\ r.debt_service >= 0
    /\ (f_result # NoneVal /\ DscrOfDebtYears(f_yearly) # <<>>) =>
          LET vs == DscrOfDebtYears(f_yearly)
          IN  /\ \E i \in 1..Len(vs) : f_result.dscr_min = vs[i]
              /\ \A i \in 1..Len(vs) : f_result.dscr_min <= vs[i]
              /\ f_result.dscr_avg = SeqSum(vs) \div Len(vs)

\* a result with a year without debt service and two debt years of different DSCR
C14_Witness ==
    /\ f_result # NoneVal
    /\ \E y \in 1..Len(f_yearly) : f_yearly[y].dscr = Inf
    /\ Len(DscrOfDebtYears(f_yearly)) >= 2
    /\ f_result.dscr_min < f_result.dscr_avg

\* C15: the tax of a year is never negative whatever the credits are; the
\* ITC reduces tax only in year 1 and the PTC only in years 1 through
\* ptc_duration, so a year outside both windows pays its gross tax in full.
C15_TaxFloorAndCreditWindows ==
    \A y \in 1..Len(f_yearly) :
        LET r   == f_yearly[y]
            inc == f_config.incentives_config
            itc == IF y = 1 /\ inc.itc_enabled
                   THEN PctOf(f_config.capex, inc.itc_rate) ELSE 0
            ptc == IF y <= inc.ptc_duration /\ inc.ptc_enabled
                   THEN r.h2_production * inc.ptc_amount ELSE 0
        IN  /\ r.tax >= 0
            /\ r.gross_tax >= 0
            /\ r.tax <= r.gross_tax
            /\ r.itc_credit = itc
            /\ r.ptc_credit = ptc
            /\ r.gross_tax >= itc + ptc => r.tax = r.gross_tax - itc - ptc
            /\ r.gross_tax < itc + ptc => r.tax = 0

\* credits larger than the gross tax in year 1, the PTC alone in year 2 and
\* the full gross tax in year 3
C15_Witness ==
    /\ Len(f_yearly) = 3
    /\ f_config.incentives_config.ptc_duration = 2
    /\ f_yearly[1].gross_tax > 0
    /\ f_yearly[1].gross_tax < f_yearly[1].itc_credit + f_yearly[1].ptc_credit
    /\ f_yearly[1].tax = 0
    /\ f_yearly[2].itc_credit = 0
    /\ f_yearly[2].ptc_credit > 0
    /\ f_yearly[2].tax = f_yearly[2].gross_tax - f_yearly[2].ptc_credit
    /\ f_yearly[2].tax > 0
    /\ f_yearly[3].tax = f_yearly[3].gross_tax
    /\ f_yearly[3].tax > 0

(***************************************************************************)
(* SpecValidation: the input validation of run_financial_analysis and of  *)
(* calculate_8760; a behaviour is a run of either function                 *)
(***************************************************************************)
InitValidation == InitFin \/ InitEnergy
NextValidation ==
    \/ FinValidate
    \/ FinSetup
    \/ FinYear
    \/ FinReturn
    \/ BuildCapitalSummary
    \/ \E ro \in RenewableOutputs \cup WrongLengthRenewables, y \in 1..MaxYear :
          CallCalculate8760(ro, y)
    \/ AggregateYear
    \/ AggregateReturn
SpecValidation == InitValidation /\ [][NextValidation]_vars

FinInputRejected ==
    \/ f_config.debt_ratio < 0
    \/ f_config.debt_ratio > 100
    \/ f_config.discount_rate < 0
    \/ f_config.project_lifetime < 1

SeriesLengthRejected ==
    \/ Len(e_prices) # Hours
    \/ (e_renewable # NoneVal /\ Len(e_renewable) # Hours)

\* C16: run_financial_analysis raises before any cash flow is computed when
\* debt_ratio is outside [0, 100], discount_rate is negative or
\* project_lifetime is not positive, and calculate_8760 raises before any
\* hour is computed when the price series or a supplied renewable series
\* has not exactly the hours of the year; no partial result exists after
\* the error, and a valid input is not rejected.
C16_ValidationFailsFast ==
    /\ (f_pc \notin {"idle", "call"} /\ FinInputRejected) =>
          /\ f_pc = "raised"
          /\ f_setup = NoneVal /\ f_yearly = <<>> /\ f_dscr_values = <<>>
          /\ f_result = NoneVal /\ f_summary = NoneVal
    /\ (f_pc = "raised") => FinInputRejected
    /\ (e_pc \notin {"idle", "input"} /\ SeriesLengthRejected) =>
          /\ e_pc = "raised"
          /\ e_result = NoneVal /\ e_yearly = <<>>
    /\ (e_pc = "raised") => SeriesLengthRejected

\* calculate_8760 has raised on a renewable series of another length, the
\* price series being of the right length
C16_Witness ==
    /\ e_pc = "raised"
    /\ e_renewable # NoneVal
    /\ Len(e_renewable) # Hours
    /\ Len(e_prices) = Hours

\* the duration windows an IncentivesConfig carries, and the longest of them
IncentiveDurations(inc) ==
    {inc[k] : k \in {k \in DOMAIN inc :
                        k \in {"operating_subsidy_duration", "ptc_duration",
                               "carbon_credit_duration", "clean_h2_premium_duration"}}}
LongestWindow(inc) ==
    CHOOSE d \in IncentiveDurations(inc) : \A e \in IncentiveDurations(inc) : e <= d
WindowOf(inc, field) ==
    IF field \in DOMAIN inc THEN inc[field] ELSE LongestWindow(inc)

\* C18 (as claimed): operating-subsidy, carbon-credit and certification-
\* premium revenue are each added per kg produced only in the years inside
\* the incentive's own duration window and contribute nothing in the years
\* after it (an incentive without a duration of its own is given the
\* longest window the configuration has).
C18_IncentiveRevenueWithinWindow ==
    \A y \in 1..Len(f_yearly) :
        LET r   == f_yearly[y]
            inc == f_config.incentives_config
        IN  /\ y > WindowOf(inc, "operating_subsidy_duration") => r.operating_subsidy = 0
            /\ y > WindowOf(inc, "carbon_credit_duration") => r.carbon_credit_revenue = 0
            /\ y > WindowOf(inc, "clean_h2_premium_duration") =>
                   r.clean_h2_premium_revenue = 0
            /\ (y <= WindowOf(inc, "operating_subsidy_duration")) =>
                   r.operating_subsidy = r.h2_production * inc.operating_subsidy

\* C19 (as claimed): the net CAPEX left after the capital subsidies is the
\* base that is split into debt and equity and also the depreciation base,
\* so with a positive capital subsidy every year's depreciation charge is
\* lower than that of the same project without the subsidy.
C19_NetCapexIsDepreciationBase ==
    (f_setup # NoneVal /\ f_setup.capex_subsidy_total > 0) =>
        /\ f_setup.depreciation_base = f_setup.net_capex
        /\ \A y \in 1..Len(f_setup.depreciation_schedule) :
              LET unsubsidised == CalculateDepreciation(f_config.capex, f_config.tax_config,
                                                        f_config.project_lifetime)[y]
              IN  unsubsidised > 0 => f_setup.depreciation_schedule[y] < unsubsidised

\* the depreciation a class has accumulated through year k
RECURSIVE Accumulated(_, _)
Accumulated(charges, k) == IF k = 0 THEN 0 ELSE charges[k] + Accumulated(charges, k - 1)

AssetClasses ==
    {BuildingDepreciation(f_config.capex, f_config.tax_config, f_config.project_lifetime),
     EquipmentDepreciation(f_config.capex, f_config.tax_config, f_config.project_lifetime)}

\* C20: under both depreciation methods, for the building and for the
\* equipment, the depreciation accumulated through any year never exceeds
\* cost minus residual value, no charge is negative, nothing is charged after
\* the class's useful life, and the yearly schedule is the sum of both.
C20_DepreciationWithinDepreciableAmount ==
    f_setup # NoneVal =>
        /\ \A c \in AssetClasses :
              \A y \in 1..f_config.project_lifetime :
                  /\ c.charges[y] >= 0
                  /\ Accumulated(c.charges, y) <= c.cost - c.salvage
                  /\ c.cost - Accumulated(c.charges, y) >= c.salvage
                  /\ y > c.life => c.charges[y] = 0
        /\ \A y \in 1..f_config.project_lifetime :
              LET b == BuildingDepreciation(f_config.capex, f_config.tax_config,
                                            f_config.project_lifetime)
                  e == EquipmentDepreciation(f_config.capex, f_config.tax_config,
                                             f_config.project_lifetime)
              IN  f_setup.depreciation_schedule[y] = b.charges[y] + e.charges[y]

\* a declining-balance schedule whose equipment is written down to its
\* residual value before the project ends, the building still being charged
C20_Witness ==
    /\ f_setup # NoneVal
    /\ f_config.tax_config.depreciation_method = "declining_balance"
    /\ \E c \in AssetClasses :
          /\ c.life < f_config.project_lifetime
          /\ Accumulated(c.charges, c.life) = c.cost - c.salvage
          /\ c.charges[c.life] > 0
    /\ f_setup.depreciation_schedule[f_config.project_lifetime] > 0

\* the numeric fields of the result that pass through safe_json_float
ClampedOutputs ==
    {f_summary.dscr.min, f_summary.dscr.avg, f_summary.payback_period, f_summary.lcoh,
     f_summary.coverage_ratios.llcr, f_summary.coverage_ratios.plcr}
        \cup {f_summary.yearly_dscr[y] : y \in 1..Len(f_summary.yearly_dscr)}

C30_EquityIrrAndNpvShareCashflows ==
    f_result # NoneVal =>
        /\ f_result.equity_cashflows = f_result.cashflows_after_tax
        /\ f_result.equity_cashflows[1] = 0 - (f_setup.equity_amount + f_setup.working_capital)

(***************************************************************************)
(* SpecRng: calculate_8760 called from run_monte_carlo, interleaved with    *)
(* the seeding and the draws of the global random stream                   *)
(***************************************************************************)
InitRng == RngInit /\ GridIdle /\ IrrIdle /\ McIdle /\ RunnerIdle /\ FinIdle /\ SensIdle /\ DebtIdle
NextRng ==
    \/ MonteCarloSeed
    \/ MonteCarloDraw
    \/ \E y \in 1..MaxYear, a \in ModifiedAvailabilities : McCalculate8760(y, a)
SpecRng == InitRng /\ [][NextRng]_vars

\* C22: two calls of calculate_8760 with the same year and the same
\* annual_availability use the same availability mask, whatever draws of
\* the global stream and calls for other years happen before or between
\* them, and a call neither reseeds nor advances the global stream.
C22_MaskIndependentOfCallOrder ==
    /\ [](\A a, b \in e_masks :
             (a.year = b.year /\ a.annual_availability = b.annual_availability)
                 => a.mask = b.mask)
    /\ [][(e_masks' # e_masks \/ e_result' # e_result \/ e_year' # e_year)
             => np_random' = np_random]_vars

\* calls for both years and both availabilities were made with draws of the
\* global stream in between
C22_Witness ==
    /\ np_random = MaxDraws
    /\ \A y \in 1..2 : \A a \in ModifiedAvailabilities :
          \E m \in e_masks : m.year = y /\ m.annual_availability = a
    /\ \E a, b \in e_masks : a.year = b.year /\ a.mask # b.mask
    /\ \E a, b \in e_masks : a.year # b.year /\ a.annual_availability = b.annual_availability
                             /\ a.mask # b.mask

(***************************************************************************)
(* SpecSens: run_sensitivity_analysis (tornado chart)                      *)
(*                                                                         *)
(* NPVs are whole numbers chosen so that every percentage change is a     *)
(* whole number too; npv_calculator is a table from (variable name,        *)
(* value) to the NPV it returns.                                           *)
(***************************************************************************)
MaxVars == 3

DefaultSensitivityVariables ==
    << [name |-> "electricity_price", display_name |-> "electricity price", base_value |-> 100, low_pct |-> -20, high_pct |-> 20],
       [name |-> "h2_price", display_name |-> "hydrogen price", base_value |-> 100, low_pct |-> -10, high_pct |-> 10],
       [name |-> "availability", display_name |-> "availability", base_value |-> 100, low_pct |-> -5, high_pct |-> 5],
       [name |-> "efficiency", display_name |-> "efficiency", base_value |-> 100, low_pct |-> -3, high_pct |-> 3],
       [name |-> "capex", display_name |-> "CAPEX", base_value |-> 100, low_pct |-> -15, high_pct |-> 15] >>

SensVariables == SubSeq(DefaultSensitivityVariables, 1, MaxVars)

BoundValue(var, pct) == (var.base_value * (PercentDen + pct)) \div PercentDen

CalculatorPoints ==
    UNION {{<<SensVariables[i].name, BoundValue(SensVariables[i], SensVariables[i].low_pct)>>,
            <<SensVariables[i].name, BoundValue(SensVariables[i], SensVariables[i].high_pct)>>} : i \in 1..MaxVars}

BaseNpvs == {-100, 0, 200}
CalculatorNpvs == {-300, 100, 500}

ChangePct(npv, base_npv) ==
    IF base_npv # 0 THEN ((npv - base_npv) * PercentDen) \div Abs(base_npv) ELSE 0

SensitivityResultOf(var, base_npv, npv_calculator) ==
    LET low_value  == BoundValue(var, var.low_pct)
        high_value == BoundValue(var, var.high_pct)
        low_npv    == npv_calculator[<<var.name, low_value>>]
        high_npv   == npv_calculator[<<var.name, high_value>>]
    IN  [variable        |-> var.name,
         display_name    |-> var.display_name,
         base_case       |-> base_npv,
         low_case        |-> low_npv,
         high_case       |-> high_npv,
         low_change_pct  |-> ChangePct(low_npv, base_npv),
         high_change_pct |-> ChangePct(high_npv, base_npv),
         low_value       |-> low_value,
         high_value      |-> high_value]

Impact(r) ==
    IF Abs(r.low_change_pct) >= Abs(r.high_change_pct)
    THEN Abs(r.low_change_pct) ELSE Abs(r.high_change_pct)

RECURSIVE InsertByImpact(_, _)
InsertByImpact(s, x) ==
    IF s = <<>> THEN <<x>>
    ELSE IF Impact(Head(s)) >= Impact(x)
         THEN <<Head(s)>> \o InsertByImpact(Tail(s), x)
         ELSE <<x>> \o s

RECURSIVE SortedByImpact(_)
SortedByImpact(rs) ==
    IF rs = <<>> THEN <<>>
    ELSE InsertByImpact(SortedByImpact(SubSeq(rs, 1, Len(rs) - 1)), rs[Len(rs)])

Unsorted(rs) == rs

SortByImpact(rs) == SortedByImpact(rs)

SensInit ==
    /\ sens_args \in [base_npv : BaseNpvs, variables : {SensVariables},
                      npv_calculator : [CalculatorPoints -> CalculatorNpvs]]
    /\ sens_results = NoneVal

RunSensitivityAnalysis ==
    /\ sens_results = NoneVal
    /\ sens_results' = SortByImpact(
           [i \in 1..Len(sens_args.variables) |->
               SensitivityResultOf(sens_args.variables[i], sens_args.base_npv, sens_args.npv_calculator)])
    /\ UNCHANGED sens_args
    /\ UNCHANGED notSens

InitSens == SensInit /\ GridIdle /\ IrrIdle /\ EnergyIdle /\ McIdle /\ RunnerIdle /\ FinIdle /\ DebtIdle
NextSens ==
    \/ RunSensitivityAnalysis
SpecSens == InitSens /\ [][NextSens]_vars

\* C23: run_sensitivity_analysis returns exactly one result per input
\* variable; each result carries the base NPV, the NPV recomputed by the
\* calculator at the variable's low and high bound, and their percentage
\* changes from the base NPV (0 when the base NPV is 0, where the code guards
\* the division); the list is ordered so that max(|low_change_pct|,
\* |high_change_pct|) never increases.
C23_OnePerVariableOrderedByImpact ==
    sens_results # NoneVal =>
        LET vs == sens_args.variables
            b  == sens_args.base_npv
            f  == sens_args.npv_calculator
        IN  /\ Len(sens_results) = Len(vs)
            /\ \A i \in 1..Len(vs) :
                   Cardinality({k \in 1..Len(sens_results) : sens_results[k].variable = vs[i].name}) = 1
            /\ \A k \in 1..Len(sens_results) :
                   \E i \in 1..Len(vs) :
                       LET r  == sens_results[k]
                           lo == (vs[i].base_value * (100 + vs[i].low_pct)) \div 100
                           hi == (vs[i].base_value * (100 + vs[i].high_pct)) \div 100
                       IN  /\ r.variable = vs[i].name
                           /\ r.base_case = b
                           /\ r.low_value = lo /\ r.high_value = hi
                           /\ r.low_case = f[<<vs[i].name, lo>>]
                           /\ r.high_case = f[<<vs[i].name, hi>>]
                           /\ b # 0 => /\ r.low_change_pct * Abs(b) = (r.low_case - b) * 100
                                       /\ r.high_change_pct * Abs(b) = (r.high_case - b) * 100
                           /\ b = 0 => r.low_change_pct = 0 /\ r.high_change_pct = 0
            /\ \A k \in 1..(Len(sens_results) - 1) :
                   Impact(sens_results[k]) >= Impact(sens_results[k + 1])

C23_Witness ==
    /\ sens_results # NoneVal
    /\ sens_args.base_npv # 0
    /\ sens_results[1].variable = sens_args.variables[MaxVars].name
    /\ Impact(sens_results[1]) > Impact(sens_results[2])
    /\ Impact(sens_results[2]) > Impact(sens_results[MaxVars])

(***************************************************************************)
(* SpecDebt: calculate_debt_service_detailed applied to one loan           *)
(***************************************************************************)
DebtArgs ==
    [principal        : {300, 301},
     interest_rate    : {0, 5},
     tenor            : {1, 2, 3},
     grace_period     : {0, 1, 2},
     project_lifetime : {3, 4},
     repayment_method : {"equal_payment", "equal_principal"}]

DebtInit ==
    /\ debt_args \in DebtArgs
    /\ debt_schedule = NoneVal

CallDebtServiceDetailed ==
    /\ debt_schedule = NoneVal
    /\ debt_schedule' = DebtServiceDetailed(debt_args.principal, debt_args.interest_rate,
                                            debt_args.tenor, debt_args.grace_period,
                                            debt_args.project_lifetime,
                                            debt_args.repayment_method)
    /\ UNCHANGED debt_args
    /\ UNCHANGED notDebt

InitDebt == DebtInit /\ GridIdle /\ IrrIdle /\ EnergyIdle /\ McIdle /\ RunnerIdle /\ FinIdle /\ SensIdle
NextDebt ==
    \/ CallDebtServiceDetailed
SpecDebt == InitDebt /\ [][NextDebt]_vars

PrincipalRepaid(schedule, tenor) ==
    SeqSum([y \in 1..tenor |-> schedule[y].principal])

\* C29 (as claimed): for both repayment methods and every grace period and
\* loan tenor with 0 <= grace_period and 1 <= loan_tenor <= project_lifetime
\* the schedule repays the loan in full: the principal payment is 0 in the
\* grace years, debt service is interest plus principal in every year, all
\* three amounts are 0 after the tenor, and the principal payments of years
\* 1..tenor add up to the loan principal (to within one unit per year, the
\* rounding of the amounts).
C29_LoanRepaidInFull ==
    (debt_schedule # NoneVal /\ debt_args.tenor <= debt_args.project_lifetime) =>
        /\ Len(debt_schedule) = debt_args.project_lifetime
        /\ \A y \in 1..Len(debt_schedule) :
              /\ y <= debt_args.grace_period => debt_schedule[y].principal = 0
              /\ debt_schedule[y].ds = debt_schedule[y].interest + debt_schedule[y].principal
              /\ y > debt_args.tenor =>
                    /\ debt_schedule[y].ds = 0
                    /\ debt_schedule[y].interest = 0
                    /\ debt_schedule[y].principal = 0
        /\ Abs(PrincipalRepaid(debt_schedule, debt_args.tenor) - debt_args.principal)
             <= debt_args.tenor

=============================================================================
